---- MODULE Spec2Model ----
(***************************************************************************)
(* Model of the ovn-ci job scheduler (lib/scheduler.rs) driving the        *)
(* typestate job runner (lib/runner.rs).  One Scheduler owns two Queues;   *)
(* every Queue holds its Runners in three vectors (waiting, running,       *)
(* finished).  The job processes are the environment: they exit on their   *)
(* own, at any moment, with an exit code of their choice.                  *)
(*                                                                         *)
(* Spec and FairSpec are the scheduler with all its Runners.  RunnerSpec   *)
(* is one Runner with its ephemeral VM (lib/vm/runner.rs), followed        *)
(* through every step and every failure of run(), finish() and drop, with  *)
(* the commands it issues and the domain the hypervisor runs for it.       *)
(* CiSpec is ContinuousIntegration::run (lib/ci.rs) around the scheduler:  *)
(* the setup steps, the base image, the reporting sidecar, the reports     *)
(* and the result main turns into the exit status.  SuiteSpec is the       *)
(* suites with all their fields (lib/config.rs): the names and bindings    *)
(* derived from them, the Runners built from them and their log files.     *)
(***************************************************************************)
EXTENDS Integers, Sequences, FiniteSets, TLC

VARIABLES
    suites,             \* Configuration.suites: the suite list, fixed per run
    concurrent_limit,   \* Configuration.concurrent_limit: Option<usize>
    cpu_itensive,       \* Scheduler.cpu_itensive: Queue
    regular,            \* Scheduler.regular: Queue
    pc,                 \* position of the thread, in ContinuousIntegration::run
                        \* and in Scheduler::run
    calls,              \* history: per Runner, the calls of run() and finish()
    transfers,          \* history: executions of the capacity transfer
    job,                \* RunnerSpec: the Runner followed
    domain,             \* RunnerSpec: the hypervisor's domain of the Runner's VM name
    effects,            \* RunnerSpec history: the commands and file operations issued
    exited,             \* RunnerSpec history: the exit code the job process produced
    poll,               \* RunnerSpec history: the last try_ready() of the Runner
    removals,           \* RunnerSpec history: the removals of pre_run_cleanup
    cli_report_binary,  \* Configuration.cli_report_binary: Option<String>
    build_image,        \* ContinuousIntegration.build_image
    day,                \* the day of the month the clock gives to update()
    steps,              \* CiSpec history: the steps of ContinuousIntegration::run
    reports,            \* history: the invocations of the reporting sidecar
    result,             \* what ContinuousIntegration::run returned
    derived,            \* SuiteSpec history: the calls of Suite::name and Suite::envs
    named,              \* SuiteSpec: the Runners built from the suites, in suite order
    files               \* SuiteSpec history: the directories and files created

schedulerVars == <<suites, concurrent_limit, cpu_itensive, regular, pc, calls, transfers>>
runnerVars == <<job, domain, effects, exited, poll, removals>>
ciVars == <<cli_report_binary, build_image, day, steps, reports, result>>
suiteVars == <<derived, named, files>>
vars == <<suites, concurrent_limit, cpu_itensive, regular, pc, calls, transfers,
          job, domain, effects, exited, poll, removals,
          cli_report_binary, build_image, day, steps, reports, result,
          derived, named, files>>

\* ------------------------------------------------------------------ bounds
MaxSuites == 3
MaxLimit == 4
\* the suites of a whole run of ContinuousIntegration::run
MaxCiSuites == 2
\* the suites of a configuration whose suites carry all their fields
MaxNamedSuites == 2

\* --------------------------------------------------------------- constants
\* const BUILD_AT_DAY: the day of the month the base image is rebuilt on
BUILD_AT_DAY == 1

\* ------------------------------------------------------------------ inputs
\* Suite.suite_type: Option<SuiteType>
SuiteTypes == {"None", "Unit", "System", "SystemUserspace", "SystemDpdk", "Dist"}
\* the suite types the configurations of the model are drawn from
ConfiguredSuiteTypes == {"Unit", "System"}
\* exit codes a job script ends with
ExitCodes == {0, 3}
\* where create_log_file can fail
LogFailures == {"log_directory", "log_file", "log_write"}
\* where Vm::start can fail; "already_running": the hypervisor lists the name
StartFailures == {"virsh_list", "already_running", "cleanup", "vm_xml", "qemu_img",
                  "create_image", "virsh_create", "create_vm", "ssh_echo", "ready_check"}
\* where Vm::command_spawn can fail
SpawnFailures == {"log_fd", "command_spawn"}
\* where Runner<New>::run can fail, "none" when it does not
RunFailures == {"none"} \cup LogFailures \cup StartFailures \cup SpawnFailures
\* the outcomes of run() the scheduler is driven through
ScheduledFailures == {"none", "create_vm"}
\* the outcomes of artifact retrieval and of wait() in finish()
ScheduledArtifacts == {"ok", "err"}
\* the outcomes of artifact retrieval: scp succeeds, scp runs and fails (its
\* status is not looked at), scp cannot be executed
Artifacts == {"ok", "status_err", "err"}
ScheduledWaits == {"ok"}
\* the outcomes of wait() in finish()
Waits == {"ok", "err"}
\* the outcomes of `virsh destroy`: the domain is stopped, virsh cannot be
\* executed (logged), or virsh runs and fails (its status is not looked at)
Destroys == {"ok", "exec_err", "status_err"}
\* the outcomes of an invocation of the reporting sidecar: it runs (its status
\* is not looked at), or it cannot be executed (logged)
Sidecar == {"ok", "exec_err"}
\* the days of the month the clock can give
Days == {1, 2}
\* the e-mail report of a failed run: not configured, sent, not sent
Emails == {"none", "ok", "err"}

Last(s) == s[Len(s)]
Front(s) == SubSeq(s, 1, Len(s) - 1)
Range(s) == {s[k] : k \in 1..Len(s)}

\* ------------------------------------------------------------------ config
\* Option<usize>
None == [some |-> FALSE]
Some(n) == [some |-> TRUE, value |-> n]
UnwrapOr(option, default) == IF option.some THEN option.value ELSE default

\* Suite::is_cpu_intensive
IsCpuIntensive(suite) == suite \in {"None", "Unit", "Dist"}

\* ------------------------------------------------------------------ runner
NoError == [kind |-> "None"]
Error(kind) == [kind |-> kind]
ReturnCode(code) == [kind |-> "ReturnCode", code |-> code]

\* the job process behind a Child handle: running, or exited with a code
Alive == [st |-> "alive"]
Exited(code) == [st |-> "exited", code |-> code]

\* no Runner built yet
Unbuilt == [state |-> "Unbuilt"]

\* Runner<New>::new: the name comes from the suite, the VM identity from the index
RunnerNew(index, suite) == [index |-> index, name |-> suite, state |-> "New"]

RunnerRunning(runner, proc) ==
    [index |-> runner.index, name |-> runner.name, state |-> "Running", proc |-> proc]

\* Runner<Finished>::new
RunnerFinished(runner, error) ==
    [index |-> runner.index, name |-> runner.name, state |-> "Finished", error |-> error]

\* success() looking at the return code only
SuccessNoReturnCode(runner) == runner.error.kind # "ReturnCode"

\* Runner<Finished>::success
Success(runner) == runner.error = NoError

\* Error::Vm(source), source the RunnerVmError
VmError(source) == [kind |-> "Vm", source |-> source]

\* one command or file operation issued, and whether it succeeded
Did(op, ok) == [op |-> op, ok |-> ok]

\* a command whose status is not looked at, and that could not be executed
Unexecuted(op) == [op |-> op, ok |-> FALSE, executed |-> FALSE]

\* Runner<New>::new: the commands and file operations of the construction
NewEffectsLogDirectory(index, suite) == <<Did("mkdir", TRUE)>>

NewEffects(index, suite) == <<>>

\* Runner<New>::create_log_file: the directory, the file, the header written
CreateLogFile(fail) ==
    CASE fail = "log_directory" ->
            [error |-> Error("LogDirectory"), effects |-> <<Did("mkdir", FALSE)>>]
      [] fail = "log_file" ->
            [error |-> Error("LogFile"),
             effects |-> <<Did("mkdir", TRUE), Did("create_file", FALSE)>>]
      [] fail = "log_write" ->
            [error |-> Error("LogWrite"),
             effects |-> <<Did("mkdir", TRUE), Did("create_file", TRUE), Did("write", FALSE)>>]
      [] OTHER ->
            [error |-> NoError,
             effects |-> <<Did("mkdir", TRUE), Did("create_file", TRUE), Did("write", TRUE)>>]

\* a command that was executed and exited with a status other than 0
StatusFailed(op) == [op |-> op, ok |-> FALSE, executed |-> TRUE]

\* the paths pre_run_cleanup is given: the descriptor, the nvram file, the image
CleanupPaths == <<"xml", "nvram", "image">>

\* what fs::remove_file can answer for one path
Removals == {"removed", "not_found", "err"}

\* the loop of pre_run_cleanup: path after path, a missing file is passed
\* over, the loop returns at the first other error
CleanupRuns ==
    {r \in [1..Len(CleanupPaths) -> Removals] : \A k \in 1..Len(r) : r[k] # "err"}
    \cup UNION {{r \in [1..n -> Removals] :
                    r[n] = "err" /\ \A k \in 1..(n - 1) : r[k] # "err"}
                : n \in 1..Len(CleanupPaths)}

\* Vm::pre_run_cleanup: whether it returns Ok
PreRunCleanup(outcomes) == \A k \in 1..Len(outcomes) : outcomes[k] # "err"

\* the steps of Vm::start, in order
StartSteps ==
    <<"virsh_list", "remove_files", "write_xml", "qemu_img_create", "virsh_create", "ssh_echo">>

\* the step of Vm::start a failure belongs to
StartStepOf(fail) ==
    CASE fail \in {"virsh_list", "already_running"} -> 1
      [] fail = "cleanup" -> 2
      [] fail = "vm_xml" -> 3
      [] fail \in {"qemu_img", "create_image"} -> 4
      [] fail \in {"virsh_create", "create_vm"} -> 5
      [] fail \in {"ssh_echo", "ready_check"} -> 6

\* the RunnerVmError of a failure of Vm::start
StartErrorOf(fail) ==
    CASE fail = "virsh_list" -> "Command(virsh-list)"
      [] fail = "already_running" -> "AlreadyRunning"
      [] fail = "cleanup" -> "Cleanup"
      [] fail = "vm_xml" -> "VmXml"
      [] fail = "qemu_img" -> "Command(qemu-img)"
      [] fail = "create_image" -> "CreateImage"
      [] fail = "virsh_create" -> "Command(virsh-create)"
      [] fail = "create_vm" -> "CreateVm"
      [] fail = "ssh_echo" -> "Command(ssh)"
      [] fail = "ready_check" -> "VmReadyCheck"

\* Vm::start removing the stale files before it looks for a running domain
StartCleanupFirst(fail) ==
    IF fail = "already_running"
    THEN [error |-> "AlreadyRunning",
          effects |-> <<Did("remove_files", TRUE), Did("virsh_list", TRUE)>>]
    ELSE IF fail \in StartFailures
    THEN [error |-> StartErrorOf(fail),
          effects |-> [k \in 1..StartStepOf(fail) |->
                            Did(StartSteps[k], k < StartStepOf(fail))]]
    ELSE [error |-> "None",
          effects |-> [k \in 1..Len(StartSteps) |-> Did(StartSteps[k], TRUE)]]

\* Vm::start: the steps up to the first one that fails; the listing of the
\* running domains succeeds when it finds the name, and start() refuses
Start(fail) ==
    IF fail \in StartFailures
    THEN [error |-> StartErrorOf(fail),
          effects |-> [k \in 1..StartStepOf(fail) |->
                            Did(StartSteps[k],
                                k < StartStepOf(fail) \/ fail = "already_running")]]
    ELSE [error |-> "None",
          effects |-> [k \in 1..Len(StartSteps) |-> Did(StartSteps[k], TRUE)]]

\* what Vm::start meets on the way to `fail`: how `virsh list` ended and what
\* the removals of pre_run_cleanup answered; start() is not reached after a
\* failed log file, and the cleanup is not reached when the listing could not
\* be executed or found the name
StartInputs(fail) ==
    IF fail \in LogFailures THEN {[list |-> "none", removals |-> <<>>]}
    ELSE IF fail = "virsh_list" THEN {[list |-> "exec_err", removals |-> <<>>]}
    ELSE IF fail = "already_running" THEN {[list |-> "ok", removals |-> <<>>]}
    ELSE {[list |-> l, removals |-> r] :
            l \in {"ok", "status_err"},
            r \in {c \in CleanupRuns : PreRunCleanup(c) <=> fail # "cleanup"}}

\* Vm::is_running: the output of a `virsh list` that exited with a status other
\* than 0 is taken as empty (unwrap_or_default), the name is not found in it,
\* and start() goes on
Listed(effs, list) ==
    [k \in 1..Len(effs) |->
        IF effs[k].op = "virsh_list" /\ list = "status_err"
        THEN StatusFailed("virsh_list") ELSE effs[k]]

\* Vm::command_spawn reporting a failed spawn as no error of the VM
CommandSpawnRunnerStart(fail) ==
    CASE fail = "log_fd" ->
            [error |-> "RunnerStart", effects |-> <<Did("clone_log_fd", FALSE)>>]
      [] fail = "command_spawn" ->
            [error |-> "RunnerStart",
             effects |-> <<Did("clone_log_fd", TRUE), Did("ssh_spawn", FALSE)>>]
      [] OTHER ->
            [error |-> "None",
             effects |-> <<Did("clone_log_fd", TRUE), Did("ssh_spawn", TRUE)>>]

\* Vm::command_spawn: the log descriptor is cloned, the command spawned over ssh
CommandSpawn(fail) ==
    CASE fail = "log_fd" ->
            [error |-> "LogFileDescriptor", effects |-> <<Did("clone_log_fd", FALSE)>>]
      [] fail = "command_spawn" ->
            [error |-> "Command(ssh)",
             effects |-> <<Did("clone_log_fd", TRUE), Did("ssh_spawn", FALSE)>>]
      [] OTHER ->
            [error |-> "None",
             effects |-> <<Did("clone_log_fd", TRUE), Did("ssh_spawn", TRUE)>>]

\* Vm::destroy, called by Drop for Vm: one `virsh destroy`, and a console line
\* when virsh could not be executed
Destroy(outcome) ==
    IF outcome = "exec_err"
    THEN <<Unexecuted("virsh_destroy"), Did("eprintln", TRUE)>>
    ELSE <<Did("virsh_destroy", outcome = "ok")>>

\* Drop for Vm: the VM value goes out of scope, started or not
Drop(started, outcome) == Destroy(outcome)

\* the error Runner<New>::run ends with when it fails at step `fail`
RunError(fail) ==
    IF CreateLogFile(fail).error # NoError THEN CreateLogFile(fail).error
    ELSE IF Start(fail).error # "None" THEN VmError(Start(fail).error)
    ELSE IF CommandSpawn(fail).error # "None" THEN VmError(CommandSpawn(fail).error)
    ELSE NoError

\* whether start() has instantiated the domain when run() fails at `fail`
Instantiated(fail) ==
    CreateLogFile(fail).error = NoError
    /\ \E k \in 1..Len(Start(fail).effects) :
            Start(fail).effects[k] = Did("virsh_create", TRUE)

\* run() starting the VM before it creates the log file
RunEffectsVmFirst(fail, destroy) ==
    IF Start(fail).error # "None"
    THEN Start(fail).effects \o Drop(Instantiated(fail), destroy)
    ELSE IF CreateLogFile(fail).error # NoError
    THEN Start(fail).effects \o CreateLogFile(fail).effects \o Drop(TRUE, destroy)
    ELSE IF CommandSpawn(fail).error # "None"
    THEN Start(fail).effects \o CreateLogFile(fail).effects \o CommandSpawn(fail).effects
         \o Drop(TRUE, destroy)
    ELSE Start(fail).effects \o CreateLogFile(fail).effects \o CommandSpawn(fail).effects

\* run() leaving the Vm behind when it fails
RunEffectsNoDrop(fail, destroy) ==
    IF CreateLogFile(fail).error # NoError
    THEN CreateLogFile(fail).effects
    ELSE IF Start(fail).error # "None"
    THEN CreateLogFile(fail).effects \o Start(fail).effects
    ELSE CreateLogFile(fail).effects \o Start(fail).effects \o CommandSpawn(fail).effects

\* Runner<New>::run: what it issues, in order; when it fails the Runner is
\* dropped, and its Vm with it
RunEffects(fail, destroy) ==
    IF CreateLogFile(fail).error # NoError
    THEN CreateLogFile(fail).effects \o Drop(Instantiated(fail), destroy)
    ELSE IF Start(fail).error # "None"
    THEN CreateLogFile(fail).effects \o Start(fail).effects
         \o Drop(Instantiated(fail), destroy)
    ELSE IF CommandSpawn(fail).error # "None"
    THEN CreateLogFile(fail).effects \o Start(fail).effects \o CommandSpawn(fail).effects
         \o Drop(Instantiated(fail), destroy)
    ELSE CreateLogFile(fail).effects \o Start(fail).effects \o CommandSpawn(fail).effects

\* Runner<New>::run: log file, then VM start, then spawn; the first failure
\* gives a Finished Runner carrying its error.  log: the calls made.
Run(runner, fail) ==
    LET called == [op |-> "run", index |-> runner.index, state |-> runner.state]
    IN  IF fail = "none"
        THEN [ok |-> TRUE, log |-> <<called>>,
              runner |-> RunnerRunning(runner, Alive)]
        ELSE [ok |-> FALSE, log |-> <<called, [op |-> "error", index |-> runner.index]>>,
              runner |-> RunnerFinished(runner, RunError(fail))]

\* try_ready() reading a failed poll as a process still running
TryReadyUnlessPollFailed(runner, poll_err) ==
    IF poll_err THEN FALSE ELSE runner.proc.st = "exited"

\* Runner<Running>::try_ready: true when the process has exited or the poll failed
TryReady(runner, poll_err) ==
    IF poll_err THEN TRUE ELSE runner.proc.st = "exited"

\* one call of try_ready(): what the process was, whether the poll failed, and
\* what try_ready() returned
Polled(runner, poll_err) ==
    [st |-> runner.proc.st, err |-> poll_err, ready |-> TryReady(runner, poll_err)]

\* what finish() meets: whether artifact retrieval and wait() fail, and the code
\* the process exits with when wait() has to block for it
FinishInputs(runner) ==
    {[artifacts |-> a, wait |-> w, code |-> c] :
        a \in ScheduledArtifacts, w \in ScheduledWaits,
        c \in IF runner.proc.st = "exited" THEN {runner.proc.code} ELSE ExitCodes}

\* finish() recording a nonzero exit without its code
FinishCodeLost(runner, in) ==
    LET error == CASE in.artifacts = "err" -> VmError("Command(virt-copy-out)")
                   [] in.wait = "err" -> Error("RunnerFinnish")
                   [] in.code = 0 -> NoError
                   [] OTHER -> ReturnCode(1)
    IN  [runner |-> RunnerFinished(runner, error), log |-> <<>>]

\* finish() reporting a failed destroy of the VM as the error of the job
FinishDestroyEscalates(runner, in) ==
    LET error == CASE in.artifacts = "err" -> VmError("Command(virt-copy-out)")
                   [] in.destroy # "ok" -> VmError("Command(virsh-destroy)")
                   [] in.wait = "err" -> Error("RunnerFinnish")
                   [] in.code = 0 -> NoError
                   [] OTHER -> ReturnCode(in.code)
    IN  [runner |-> RunnerFinished(runner, error), log |-> <<>>]

\* finish() going on to the exit status when the artifacts could not be fetched
FinishArtifactsIgnored(runner, in) ==
    LET error == CASE in.wait = "err" -> Error("RunnerFinnish")
                   [] in.code = 0 -> NoError
                   [] OTHER -> ReturnCode(in.code)
    IN  [runner |-> RunnerFinished(runner, error), log |-> <<>>]

\* Runner<Running>::finish: artifact retrieval, then wait() and the classification
\* of the exit status
Finish(runner, in) ==
    LET called == [op |-> "finish", index |-> runner.index, state |-> runner.state]
        error == CASE in.artifacts = "err" -> VmError("Command(virt-copy-out)")
                   [] in.wait = "err" -> Error("RunnerFinnish")
                   [] in.code = 0 -> NoError
                   [] OTHER -> ReturnCode(in.code)
    IN  [runner |-> RunnerFinished(runner, error),
         log |-> IF error = NoError THEN <<called>>
                 ELSE <<called, [op |-> "error", index |-> runner.index]>>]

\* what finish() meets for the Runner followed, with the outcome of the destroy
RunnerFinishInputs(runner) ==
    {[artifacts |-> a, wait |-> w, code |-> c, destroy |-> d] :
        a \in Artifacts, w \in Waits,
        c \in (IF runner.proc.st = "exited" THEN {runner.proc.code} ELSE ExitCodes),
        d \in Destroys}

\* finish() dropping the Vm before it fetches the artifacts
FinishEffectsDestroyFirst(in) ==
    IF in.artifacts = "err"
    THEN Drop(TRUE, in.destroy) \o <<Unexecuted("scp")>>
    ELSE Drop(TRUE, in.destroy)
         \o <<Did("scp", in.artifacts = "ok"), Did("wait", in.wait = "ok")>>

\* Runner<Running>::finish: what it issues, in order; at its end the Runner is
\* dropped, and its Vm with it
FinishEffects(in) ==
    IF in.artifacts = "err"
    THEN <<Unexecuted("scp")>> \o Drop(TRUE, in.destroy)
    ELSE <<Did("scp", in.artifacts = "ok"), Did("wait", in.wait = "ok")>>
         \o Drop(TRUE, in.destroy)

\* the hypervisor: the domain of the VM name after the commands effs, or
\* "impossible" when it cannot answer them so: `virsh create` instantiates a
\* domain where none of the name runs, `virsh destroy` stops the one that runs
RECURSIVE Hypervisor(_, _)
Hypervisor(dom, effs) ==
    IF effs = <<>> THEN dom
    ELSE LET e == Head(effs)
         IN  CASE e = Did("virsh_create", TRUE) ->
                    IF dom = "absent" THEN Hypervisor("own", Tail(effs)) ELSE "impossible"
               [] e = Did("virsh_destroy", TRUE) ->
                    IF dom # "absent" THEN Hypervisor("absent", Tail(effs)) ELSE "impossible"
               [] OTHER -> Hypervisor(dom, Tail(effs))

\* one invocation of the reporting sidecar: the event, its flag (--failed,
\* --error), the job name it carries, and whether it could be executed; when
\* not, a line is written to the console
Invoked(event, flag, name, outcome) ==
    [op |-> "report", event |-> event, flag |-> flag, name |-> name,
     ok |-> outcome = "ok", logged |-> outcome # "ok"]

\* test_result() never passing --failed
TestResultNeverFailed(name, success, outcome) ==
    Invoked("pipeline-result", FALSE, name, outcome)

\* CliReport::test_result: `pipeline-result [--failed] <url> <name>`
TestResult(name, success, outcome) == Invoked("pipeline-result", ~success, name, outcome)

\* CliReport::start: `pipeline-start <label> <hash> <url>`
ReportingStart(outcome) == Invoked("pipeline-start", FALSE, "", outcome)

\* CliReport::finish: `pipeline-finish [--error] <url>`
ReportingFinish(success, outcome) == Invoked("pipeline-finish", ~success, "", outcome)

\* ContinuousIntegration::should_fail
ShouldFail(finished) == \E k \in 1..Len(finished) : ~Success(finished[k])

\* ------------------------------------------------------------------- queue
QueueNew(runners, limit, reporting) ==
    [limit |-> limit, waiting |-> runners, running |-> <<>>, finished |-> <<>>,
     reporting |-> reporting]

\* is_finished() looking at the waiting Runners only
IsFinishedWaiting(q) == q.waiting = <<>>

IsFinished(q) == q.waiting = <<>> /\ q.running = <<>>

\* can_yield() without the check of the limit
CanYieldAnyLimit(q) == IsFinished(q)

\* can_yield() looking at the running Runners only
CanYieldRunningEmpty(q) == q.running = <<>> /\ q.limit > 0

CanYield(q) == IsFinished(q) /\ q.limit > 0

\* what the sidecar can answer to a queue: nothing when none is configured
TestResults(q) == IF q.reporting.some THEN Sidecar ELSE {"none"}

\* if let Some(reporting) ... reporting.test_result(...): the invocation made
Reported(q, runner, report) ==
    IF q.reporting.some THEN <<TestResult(runner.name, Success(runner), report)>> ELSE <<>>

\* println!("{}", runner.report_console()) on a Runner<New>: the start line
StartingLine(runner) ==
    [op |-> "console", line |-> "starting", index |-> runner.index, name |-> runner.name]

\* println!("{}", runner.report_console()) on a Runner<Finished>: the
\* completion line with the status
DoneLine(runner) ==
    [op |-> "console", line |-> "done", index |-> runner.index, name |-> runner.name,
     ok |-> Success(runner)]

\* what add_finished() emits for the Runner: the sidecar invocation when one
\* is configured, then the completion line
Completed(q, runner, report) == Reported(q, runner, report) \o <<DoneLine(runner)>>

\* add_finished() keeping the Runner only when the sidecar could be executed
AddFinishedIfReported(q, runner, report) ==
    IF report = "exec_err" THEN q ELSE [q EXCEPT !.finished = Append(@, runner)]

\* Queue::add_finished; report: what the sidecar answers
AddFinished(q, runner, report) == [q EXCEPT !.finished = Append(@, runner)]

\* swap_remove dropping the last element whatever k is
SwapRemoveLast(s, k) == Front(s)

\* swap_remove removing nothing
SwapRemoveNothing(s, k) == s

\* Vec::swap_remove: the element at k is replaced by the last one
SwapRemove(s, k) ==
    IF k = Len(s) THEN Front(s) ELSE [Front(s) EXCEPT ![k] = Last(s)]

\* schedule() admitting while running.len() <= limit
RECURSIVE ScheduleOffByOne(_)
ScheduleOffByOne(s) ==
    IF s.q.waiting # <<>> /\ Len(s.q.running) <= s.q.limit
    THEN UNION {
            LET runner == Last(s.q.waiting)
                popped == [s.q EXCEPT !.waiting = Front(@)]
                res == Run(runner, fail)
            IN  ScheduleOffByOne([q |-> IF res.ok
                                        THEN [popped EXCEPT !.running = Append(@, res.runner)]
                                        ELSE AddFinished(popped, res.runner, report),
                                  log |-> s.log \o res.log
                                         \o (IF res.ok THEN <<>>
                                             ELSE Reported(popped, res.runner, report))])
            : fail \in ScheduledFailures, report \in TestResults(s.q) }
    ELSE {s}

\* schedule() dropping the Runner whose run() failed
RECURSIVE ScheduleDropFailed(_)
ScheduleDropFailed(s) ==
    IF s.q.waiting # <<>> /\ Len(s.q.running) < s.q.limit
    THEN UNION {
            LET runner == Last(s.q.waiting)
                popped == [s.q EXCEPT !.waiting = Front(@)]
                res == Run(runner, fail)
            IN  ScheduleDropFailed([q |-> IF res.ok
                                          THEN [popped EXCEPT !.running = Append(@, res.runner)]
                                          ELSE popped,
                                    log |-> s.log \o res.log])
            : fail \in ScheduledFailures, report \in TestResults(s.q) }
    ELSE {s}

\* schedule() taking the Runner that has waited longest
RECURSIVE ScheduleFifo(_)
ScheduleFifo(s) ==
    IF s.q.waiting # <<>> /\ Len(s.q.running) < s.q.limit
    THEN UNION {
            LET runner == Head(s.q.waiting)
                popped == [s.q EXCEPT !.waiting = Tail(@)]
                res == Run(runner, fail)
            IN  ScheduleFifo([q |-> IF res.ok
                                    THEN [popped EXCEPT !.running = Append(@, res.runner)]
                                    ELSE AddFinished(popped, res.runner, report),
                              log |-> s.log \o res.log
                                     \o (IF res.ok THEN <<>>
                                         ELSE Reported(popped, res.runner, report))])
            : fail \in ScheduledFailures, report \in TestResults(s.q) }
    ELSE {s}

\* schedule() leaving the loop at the first Runner whose run() failed
RECURSIVE ScheduleStopOnFailure(_)
ScheduleStopOnFailure(s) ==
    IF s.q.waiting # <<>> /\ Len(s.q.running) < s.q.limit
    THEN UNION {
            LET runner == Last(s.q.waiting)
                popped == [s.q EXCEPT !.waiting = Front(@)]
                res == Run(runner, fail)
            IN  IF res.ok
                THEN ScheduleStopOnFailure(
                        [q |-> [popped EXCEPT !.running = Append(@, res.runner)],
                         log |-> s.log \o res.log])
                ELSE {[q |-> AddFinished(popped, res.runner, report),
                       log |-> s.log \o res.log \o Reported(popped, res.runner, report)]}
            : fail \in ScheduledFailures, report \in TestResults(s.q) }
    ELSE {s}

\* Queue::schedule; s = [q, log]; the set of states it can end in
RECURSIVE Schedule(_)
Schedule(s) ==
    IF s.q.waiting # <<>> /\ Len(s.q.running) < s.q.limit
    THEN UNION {
            LET runner == Last(s.q.waiting)
                popped == [s.q EXCEPT !.waiting = Front(@)]
                res == Run(runner, fail)
            IN  Schedule([q |-> IF res.ok
                                THEN [popped EXCEPT !.running = Append(@, res.runner)]
                                ELSE AddFinished(popped, res.runner, report),
                          log |-> s.log \o <<StartingLine(runner)>> \o res.log
                                 \o (IF res.ok THEN <<>>
                                     ELSE Completed(popped, res.runner, report))])
            : fail \in ScheduledFailures, report \in TestResults(s.q) }
    ELSE {s}

\* the loop of Queue::collect_finished over the ready indexes
RECURSIVE CollectLoop(_, _)
CollectLoop(s, indexes) ==
    IF indexes = <<>> THEN {s}
    ELSE UNION {
            CollectLoop([q |-> AddFinished([s.q EXCEPT !.running = SwapRemove(@, Head(indexes))],
                                           res.runner, report),
                         log |-> s.log \o res.log \o Completed(s.q, res.runner, report)],
                        Tail(indexes))
            : res \in {Finish(s.q.running[Head(indexes)], in) :
                            in \in FinishInputs(s.q.running[Head(indexes)])},
              report \in TestResults(s.q) }

\* the positions of set S, highest first (enumerate ... rev)
RECURSIVE Descending(_)
Descending(S) ==
    IF S = {} THEN <<>>
    ELSE LET m == CHOOSE x \in S : \A y \in S : y <= x
         IN  <<m>> \o Descending(S \ {m})

\* the positions of running whose try_ready() returns true; poll_errs: the
\* positions whose poll fails
ReadyPositions(q, poll_errs) ==
    {k \in 1..Len(q.running) : TryReady(q.running[k], k \in poll_errs)}

\* collect_finished() calling finish() on every running Runner
CollectFinishedAll(s, poll_errs) == CollectLoop(s, Descending(1..Len(s.q.running)))

\* Queue::collect_finished under given poll results: the ready positions,
\* highest first, each swap-removed and finished
CollectFinishedWith(s, poll_errs) ==
    CollectLoop(s, Descending(ReadyPositions(s.q, poll_errs)))

\* Queue::collect_finished: poll every running Runner, finish the ready ones
CollectFinished(s) ==
    UNION { CollectFinishedWith(s, poll_errs) : poll_errs \in SUBSET (1..Len(s.q.running)) }

\* Queue::step
Step(q) ==
    UNION { CollectFinished(s) : s \in Schedule([q |-> q, log |-> <<>>]) }

\* --------------------------------------------------------------- scheduler
\* the overall limit: config.concurrent_limit().unwrap_or(1)
OverallLimit(limit) == UnwrapOr(limit, 1)

\* the split without the + 1
CpuIntensiveLimitQuarter(limit) ==
    IF OverallLimit(limit) > 1 THEN OverallLimit(limit) \div 4 ELSE 0

\* the split giving the cpu-intensive queue half of the limit and one
CpuIntensiveLimitHalf(limit) ==
    IF OverallLimit(limit) > 1 THEN (OverallLimit(limit) \div 2) + 1 ELSE 0

CpuIntensiveLimit(limit) ==
    IF OverallLimit(limit) > 1 THEN (OverallLimit(limit) \div 4) + 1 ELSE 0

\* the regular limit without `regular_limit -= cpu_intensive_limit`
RegularLimitWhole(limit) == OverallLimit(limit)

RegularLimit(limit) == OverallLimit(limit) - CpuIntensiveLimit(limit)

\* the partition of Scheduler::new: whether the suite of index i (counted from 0)
\* goes to the cpu-intensive queue
InCpuIntensiveAnyLimit(config_suites, limit, i) ==
    IsCpuIntensive(config_suites[i + 1])

InCpuIntensive(config_suites, limit, i) ==
    CpuIntensiveLimit(limit) > 0 /\ IsCpuIntensive(config_suites[i + 1])

Indexes(config_suites) == 0..(Len(config_suites) - 1)

\* the Runners built for the first n suites whose index is in S, in suite order
RECURSIVE RunnersOf(_, _, _)
RunnersOf(config_suites, n, S) ==
    IF n = 0 THEN <<>>
    ELSE RunnersOf(config_suites, n - 1, S)
         \o (IF (n - 1) \in S THEN <<RunnerNew(n - 1, config_suites[n])>> ELSE <<>>)

SchedulerNew(config_suites, limit, reporting) ==
    LET n == Len(config_suites)
        cpu == {i \in 0..(n - 1) : InCpuIntensive(config_suites, limit, i)}
    IN  [cpu_itensive |-> QueueNew(RunnersOf(config_suites, n, cpu), CpuIntensiveLimit(limit),
                                   reporting),
         regular |-> QueueNew(RunnersOf(config_suites, n, (0..(n - 1)) \ cpu),
                              RegularLimit(limit), reporting)]

\* Scheduler::finished
Finished == regular.finished \o cpu_itensive.finished

\* ----------------------------------------------------------------- history
\* the calls of a log, added to the calls made so far: per Runner the calls of
\* run() and of finish(), whether one was made in another state than the one it
\* is defined on, and whether one ended with an error
RECURSIVE CallsAfter(_, _)
CallsAfter(cs, log) ==
    IF log = <<>> THEN cs
    ELSE LET e == Head(log)
         IN  CallsAfter(CASE e.op = "run" ->
                                [cs EXCEPT ![e.index].run = @ + 1,
                                           ![e.index].misapplied = @ \/ e.state # "New"]
                          [] e.op = "finish" ->
                                [cs EXCEPT ![e.index].finish = @ + 1,
                                           ![e.index].misapplied = @ \/ e.state # "Running"]
                          [] e.op = "error" -> [cs EXCEPT ![e.index].failed = TRUE]
                          [] OTHER -> cs,
                        Tail(log))

\* the sidecar invocations of a log, added to those made so far
ReportsAfter(rs, log) == rs \o SelectSeq(log, LAMBDA e : e.op = "report")

\* -------------------------------------------------------------------- Init
SuiteLists == UNION {[1..n -> ConfiguredSuiteTypes] : n \in 0..MaxSuites}

Init ==
    /\ suites \in SuiteLists
    /\ concurrent_limit \in {None} \cup {Some(n) : n \in 0..MaxLimit}
    /\ cli_report_binary = None
    /\ cpu_itensive = SchedulerNew(suites, concurrent_limit, cli_report_binary).cpu_itensive
    /\ regular = SchedulerNew(suites, concurrent_limit, cli_report_binary).regular
    /\ pc = "cpu_step"
    /\ calls = [i \in Indexes(suites) |->
                    [run |-> 0, finish |-> 0, misapplied |-> FALSE, failed |-> FALSE]]
    /\ transfers = 0
    /\ job = Unbuilt
    /\ domain = "absent"
    /\ effects = <<>>
    /\ exited = None
    /\ poll = None
    /\ removals = <<>>
    /\ build_image = FALSE
    /\ day = 2
    /\ steps = <<>>
    /\ reports = <<>>
    /\ result = None
    /\ derived = <<>>
    /\ named = <<>>
    /\ files = <<>>

\* ----------------------------------------------------------------- actions
\* the while condition of Scheduler::run
Running == ~(IsFinished(cpu_itensive) /\ IsFinished(regular))

\* the loop ends: Scheduler::run returns
Return ==
    /\ pc = "cpu_step"
    /\ ~Running
    /\ pc' = "done"
    /\ UNCHANGED <<suites, concurrent_limit, cpu_itensive, regular, calls, transfers>>
    /\ UNCHANGED runnerVars
    /\ UNCHANGED suiteVars
    /\ UNCHANGED ciVars

\* a new iteration: self.cpu_itensive.step()
CpuStep ==
    /\ pc = "cpu_step"
    /\ Running
    /\ \E s \in Step(cpu_itensive) :
        /\ cpu_itensive' = s.q
        /\ calls' = CallsAfter(calls, s.log)
        /\ reports' = ReportsAfter(reports, s.log)
    /\ pc' = "regular_step"
    /\ UNCHANGED <<suites, concurrent_limit, regular, transfers>>
    /\ UNCHANGED runnerVars
    /\ UNCHANGED suiteVars
    /\ UNCHANGED <<cli_report_binary, build_image, day, steps, result>>

\* the yield check taken before self.regular.step() instead of after it
RegularStepAfterYield ==
    /\ pc = "regular_step"
    /\ LET yielded == IF CanYield(cpu_itensive)
                      THEN [cpu_itensive |-> [cpu_itensive EXCEPT !.limit = 0],
                            regular |-> [regular EXCEPT !.limit = @ + cpu_itensive.limit]]
                      ELSE [cpu_itensive |-> cpu_itensive, regular |-> regular]
       IN  /\ cpu_itensive' = yielded.cpu_itensive
           /\ transfers' = IF CanYield(cpu_itensive) THEN transfers + 1 ELSE transfers
           /\ \E s \in Step(yielded.regular) :
                /\ regular' = s.q
                /\ calls' = CallsAfter(calls, s.log)
                /\ reports' = ReportsAfter(reports, s.log)
    /\ pc' = "yield"
    /\ UNCHANGED <<suites, concurrent_limit>>
    /\ UNCHANGED runnerVars
    /\ UNCHANGED suiteVars
    /\ UNCHANGED <<cli_report_binary, build_image, day, steps, result>>

\* self.regular.step()
RegularStep ==
    /\ pc = "regular_step"
    /\ \E s \in Step(regular) :
        /\ regular' = s.q
        /\ calls' = CallsAfter(calls, s.log)
        /\ reports' = ReportsAfter(reports, s.log)
    /\ pc' = "yield"
    /\ UNCHANGED <<suites, concurrent_limit, cpu_itensive, transfers>>
    /\ UNCHANGED runnerVars
    /\ UNCHANGED suiteVars
    /\ UNCHANGED <<cli_report_binary, build_image, day, steps, result>>

\* the transfer assigning the limit instead of adding it
YieldAssign(cpu, reg) ==
    [cpu_itensive |-> [cpu EXCEPT !.limit = 0],
     regular |-> [reg EXCEPT !.limit = cpu.limit]]

\* the capacity transfer of Scheduler::run: [cpu_itensive, regular] after it
Yield(cpu, reg) ==
    [cpu_itensive |-> [cpu EXCEPT !.limit = 0],
     regular |-> [reg EXCEPT !.limit = @ + cpu.limit]]

\* if self.cpu_itensive.can_yield() { ... }; thread::sleep(...)
YieldCheck ==
    /\ pc = "yield"
    /\ IF CanYield(cpu_itensive)
       THEN /\ cpu_itensive' = Yield(cpu_itensive, regular).cpu_itensive
            /\ regular' = Yield(cpu_itensive, regular).regular
            /\ transfers' = transfers + 1
       ELSE UNCHANGED <<cpu_itensive, regular, transfers>>
    /\ pc' = "cpu_step"
    /\ UNCHANGED <<suites, concurrent_limit, calls>>
    /\ UNCHANGED runnerVars
    /\ UNCHANGED suiteVars
    /\ UNCHANGED ciVars

\* queue q with the job process of its k-th running Runner exited with code
ProcExited(q, k, code) == [q EXCEPT !.running[k].proc = Exited(code)]

\* environment: the job process of the Runner of index i exits
ProcExit(i) ==
    /\ UNCHANGED runnerVars
    /\ UNCHANGED suiteVars
    /\ UNCHANGED ciVars
    /\ \E code \in ExitCodes :
        \/ /\ \E k \in 1..Len(cpu_itensive.running) :
                /\ cpu_itensive.running[k].index = i
                /\ cpu_itensive.running[k].proc = Alive
                /\ cpu_itensive' = ProcExited(cpu_itensive, k, code)
           /\ UNCHANGED <<suites, concurrent_limit, regular, pc, calls, transfers>>
        \/ /\ \E k \in 1..Len(regular.running) :
                /\ regular.running[k].index = i
                /\ regular.running[k].proc = Alive
                /\ regular' = ProcExited(regular, k, code)
           /\ UNCHANGED <<suites, concurrent_limit, cpu_itensive, pc, calls, transfers>>

\* -------------------------------------------------- one Runner and its VM
\* a Runner not built yet; a domain of its VM name may be running already
RunnerInit ==
    /\ suites = <<>>
    /\ concurrent_limit = None
    /\ cli_report_binary = None
    /\ cpu_itensive = QueueNew(<<>>, 0, cli_report_binary)
    /\ regular = QueueNew(<<>>, 0, cli_report_binary)
    /\ pc = "off"
    /\ calls = <<>>
    /\ transfers = 0
    /\ job = Unbuilt
    /\ domain \in {"absent", "foreign"}
    /\ effects = <<>>
    /\ exited = None
    /\ poll = None
    /\ removals = <<>>
    /\ build_image = FALSE
    /\ day = 2
    /\ steps = <<>>
    /\ reports = <<>>
    /\ result = None
    /\ derived = <<>>
    /\ named = <<>>
    /\ files = <<>>

\* Scheduler::new builds the Runner of a suite
Construct ==
    /\ job = Unbuilt
    /\ \E index \in 0..(MaxSuites - 1), suite \in ConfiguredSuiteTypes :
        /\ job' = RunnerNew(index, suite)
        /\ effects' = effects \o NewEffects(index, suite)
    /\ UNCHANGED <<domain, exited, poll, removals>>
    /\ UNCHANGED schedulerVars
    /\ UNCHANGED suiteVars
    /\ UNCHANGED ciVars

\* a fatal setup step fails: ContinuousIntegration::run returns before
\* Scheduler::run, main returns, and the Runner is dropped as it was built
Discard ==
    /\ job.state = "New"
    /\ \E destroy \in Destroys :
        /\ Hypervisor(domain, Drop(FALSE, destroy)) # "impossible"
        /\ effects' = effects \o Drop(FALSE, destroy)
        /\ domain' = Hypervisor(domain, Drop(FALSE, destroy))
    /\ job' = [job EXCEPT !.state = "Dropped"]
    /\ UNCHANGED <<exited, poll, removals>>
    /\ UNCHANGED schedulerVars
    /\ UNCHANGED suiteVars
    /\ UNCHANGED ciVars

\* Queue::schedule calls run() on the Runner
RunnerRun ==
    /\ job.state = "New"
    /\ \E fail \in RunFailures, destroy \in Destroys :
        /\ (fail = "already_running") => (domain # "absent")
        /\ Hypervisor(domain, RunEffects(fail, destroy)) # "impossible"
        /\ job' = Run(job, fail).runner
        /\ domain' = Hypervisor(domain, RunEffects(fail, destroy))
        /\ \E met \in StartInputs(fail) :
            /\ effects' = effects \o Listed(RunEffects(fail, destroy), met.list)
            /\ removals' = met.removals
    /\ UNCHANGED <<exited, poll>>
    /\ UNCHANGED schedulerVars
    /\ UNCHANGED suiteVars
    /\ UNCHANGED ciVars

\* environment: the job process of the Runner exits
JobExit ==
    /\ job.state = "Running"
    /\ job.proc = Alive
    /\ \E code \in ExitCodes :
        /\ job' = [job EXCEPT !.proc = Exited(code)]
        /\ exited' = Some(code)
    /\ UNCHANGED <<domain, effects, poll, removals>>
    /\ UNCHANGED schedulerVars
    /\ UNCHANGED suiteVars
    /\ UNCHANGED ciVars

\* Queue::collect_finished finds the Runner ready and calls finish() on it; a
\* poll that saw the process exited keeps its status, and wait() returns it
RunnerFinish ==
    /\ job.state = "Running"
    /\ \E poll_err \in BOOLEAN, in \in RunnerFinishInputs(job) :
        /\ TryReady(job, poll_err)
        /\ (in.wait = "err") => poll_err
        /\ Hypervisor(domain, FinishEffects(in)) # "impossible"
        /\ job' = Finish(job, in).runner
        /\ effects' = effects \o FinishEffects(in)
        /\ domain' = Hypervisor(domain, FinishEffects(in))
        /\ exited' = IF in.artifacts # "err" /\ in.wait = "ok" THEN Some(in.code) ELSE exited
        /\ poll' = Polled(job, poll_err)
    /\ UNCHANGED removals
    /\ UNCHANGED schedulerVars
    /\ UNCHANGED suiteVars
    /\ UNCHANGED ciVars

\* Queue::collect_finished polls the Runner and finds it not ready: it stays
\* in running
RunnerPoll ==
    /\ job.state = "Running"
    /\ \E poll_err \in BOOLEAN :
        /\ ~TryReady(job, poll_err)
        /\ poll' = Polled(job, poll_err)
    /\ UNCHANGED <<job, domain, effects, exited, removals>>
    /\ UNCHANGED schedulerVars
    /\ UNCHANGED suiteVars
    /\ UNCHANGED ciVars

RunnerNext == Construct \/ Discard \/ RunnerRun \/ JobExit \/ RunnerPoll \/ RunnerFinish

RunnerSpec == RunnerInit /\ [][RunnerNext]_vars

SchedulerRun == Return \/ CpuStep \/ RegularStep \/ YieldCheck

\* ------------------------------------------------- suites with their fields
\* strings are sequences of characters

\* Compiler::as_str, Compiler::as_name
CompilerAsStr(compiler) == IF compiler = "Gcc" THEN <<"g", "c", "c">> ELSE <<"c", "l", "a", "n", "g">>
CompilerAsName(compiler) == IF compiler = "Gcc" THEN <<"G", "C", "C">> ELSE <<"C", "l", "a", "n", "g">>

\* SuiteType::as_str
TypeAsStr(ty) ==
    CASE ty = "Unit" -> <<"t", "e", "s", "t">>
      [] ty = "System" -> <<"s", "y", "s", "t", "e", "m", "-", "t", "e", "s", "t">>
      [] ty = "SystemUserspace" -> <<"s", "y", "s", "t", "e", "m", "-", "t", "e", "s", "t", "-", "u", "s", "e", "r", "s", "p", "a", "c", "e">>
      [] ty = "SystemDpdk" -> <<"s", "y", "s", "t", "e", "m", "-", "t", "e", "s", "t", "-", "d", "p", "d", "k">>
      [] ty = "Dist" -> <<"d", "i", "s", "t", "-", "t", "e", "s", "t">>

\* SuiteType::as_name
TypeAsName(ty) ==
    CASE ty = "Unit" -> <<"u", "n", "i", "t">>
      [] ty = "System" -> <<"s", "y", "s", "t", "e", "m">>
      [] ty = "SystemUserspace" -> <<"s", "y", "s", "t", "e", "m", "-", "u", "s", "e", "r", "s", "p", "a", "c", "e">>
      [] ty = "SystemDpdk" -> <<"s", "y", "s", "t", "e", "m", "-", "d", "p", "d", "k">>
      [] ty = "Dist" -> <<"d", "i", "s", "t">>

\* SuiteType::extra_env
ExtraEnv(ty) == IF ty = "SystemDpdk" THEN <<<<"DPDK", <<"d", "p", "d", "k">>>>>> ELSE <<>>

\* struct Suite
Suite(name, compiler, options, suite_type, sanitizers, test_range, libs, unstable, recheck) ==
    [name |-> name, compiler |-> compiler, options |-> options, suite_type |-> suite_type,
     sanitizers |-> sanitizers, test_range |-> test_range, libs |-> libs,
     unstable |-> unstable, recheck |-> recheck]

\* a suite of the configuration file with its name and compiler only
Plain(name, compiler) == Suite(name, compiler, None, None, FALSE, None, None, FALSE, FALSE)

\* the suites the configurations are drawn from: names that differ by case
\* only, an option and a test range that read the same, every field set
NamedSuites ==
    {Plain(<<"T">>, "Gcc"), Plain(<<"t">>, "Gcc"),
     [Plain(<<"T">>, "Gcc") EXCEPT !.options = Some(<<"x">>)],
     [Plain(<<"T">>, "Gcc") EXCEPT !.test_range = Some(<<"x">>)],
     [Plain(<<"t">>, "Clang") EXCEPT !.suite_type = Some("Unit")],
     Suite(<<"T">>, "Clang", Some(<<"o">>), Some("SystemDpdk"), TRUE, Some(<<"x">>),
           Some(<<"l">>), TRUE, TRUE)}

\* Suite::envs with the bindings in another order from the second call on
SuiteEnvsByCall(suite) ==
    (IF derived = <<>> THEN <<<<"CC", CompilerAsStr(suite.compiler)>>>> ELSE <<>>)
    \o (IF suite.options.some THEN <<<<"OPTS", suite.options.value>>>> ELSE <<>>)
    \o (IF suite.suite_type.some
        THEN <<<<"TESTSUITE", TypeAsStr(suite.suite_type.value)>>>>
             \o ExtraEnv(suite.suite_type.value)
        ELSE <<>>)
    \o (IF suite.sanitizers THEN <<<<"SANITIZERS", <<"s", "a", "n", "i", "t", "i", "z", "e", "r", "s">>>>>> ELSE <<>>)
    \o (IF suite.test_range.some THEN <<<<"TEST_RANGE", suite.test_range.value>>>> ELSE <<>>)
    \o (IF suite.libs.some THEN <<<<"LIBS", suite.libs.value>>>> ELSE <<>>)
    \o (IF suite.unstable THEN <<<<"UNSTABLE", <<"u", "n", "s", "t", "a", "b", "l", "e">>>>>> ELSE <<>>)
    \o (IF suite.recheck THEN <<<<"RECHECK", <<"y", "e", "s">>>>>> ELSE <<>>)
    \o (IF derived = <<>> THEN <<>> ELSE <<<<"CC", CompilerAsStr(suite.compiler)>>>>)

\* Suite::envs: the bindings pushed, in order
SuiteEnvs(suite) ==
    <<<<"CC", CompilerAsStr(suite.compiler)>>>>
    \o (IF suite.options.some THEN <<<<"OPTS", suite.options.value>>>> ELSE <<>>)
    \o (IF suite.suite_type.some
        THEN <<<<"TESTSUITE", TypeAsStr(suite.suite_type.value)>>>>
             \o ExtraEnv(suite.suite_type.value)
        ELSE <<>>)
    \o (IF suite.sanitizers THEN <<<<"SANITIZERS", <<"s", "a", "n", "i", "t", "i", "z", "e", "r", "s">>>>>> ELSE <<>>)
    \o (IF suite.test_range.some THEN <<<<"TEST_RANGE", suite.test_range.value>>>> ELSE <<>>)
    \o (IF suite.libs.some THEN <<<<"LIBS", suite.libs.value>>>> ELSE <<>>)
    \o (IF suite.unstable THEN <<<<"UNSTABLE", <<"u", "n", "s", "t", "a", "b", "l", "e">>>>>> ELSE <<>>)
    \o (IF suite.recheck THEN <<<<"RECHECK", <<"y", "e", "s">>>>>> ELSE <<>>)

\* Suite::name: the display name pushed together
SuiteName(suite) ==
    suite.name \o <<" ">> \o CompilerAsName(suite.compiler)
    \o (IF suite.suite_type.some
        THEN <<" ", "-", " ">> \o TypeAsName(suite.suite_type.value) ELSE <<>>)
    \o (IF suite.test_range.some
        THEN <<" ", "(">> \o suite.test_range.value \o <<")">> ELSE <<>>)
    \o (IF suite.sanitizers THEN <<" ", "-", " ", "s", "a", "n", "i", "t", "i", "z", "e", "r", "s">> ELSE <<>>)
    \o (IF suite.options.some
        THEN <<" ", "(">> \o suite.options.value \o <<")">> ELSE <<>>)
    \o (IF suite.libs.some
        THEN <<" ", "(">> \o suite.libs.value \o <<")">> ELSE <<>>)
    \o (IF suite.unstable THEN <<" ", "-", " ", "u", "n", "s", "t", "a", "b", "l", "e">> ELSE <<>>)
    \o (IF suite.recheck THEN <<" ", "-", " ", "r", "e", "c", "h", "e", "c", "k">> ELSE <<>>)

\* char::to_lowercase on the characters of the names
ToLowercaseChar(c) ==
    CASE c = "T" -> "t"
      [] c = "G" -> "g"
      [] c = "C" -> "c"
      [] OTHER -> c

\* str::to_lowercase
ToLowercase(str) == [k \in 1..Len(str) |-> ToLowercaseChar(str[k])]

\* str::replace(['(', ')'], "")
RemoveParens(str) == SelectSeq(str, LAMBDA c : c \notin {"(", ")"})

\* str::replace(' ', "_")
SpacesToUnderscores(str) == [k \in 1..Len(str) |-> IF str[k] = " " THEN "_" ELSE str[k]]

\* Runner<New>::new: the directory of the job under the log path of the run
JobDirectory(name) == SpacesToUnderscores(RemoveParens(ToLowercase(name)))

\* Runner<New>::new for a suite with its fields: the name, the log path, the
\* bindings of the command
NamedRunner(index, suite) ==
    [index |-> index, name |-> SuiteName(suite), log_path |-> JobDirectory(SuiteName(suite)),
     envs |-> SuiteEnvs(suite), state |-> "New", error |-> NoError]

\* one call of name() and envs() on the suite of index i
Call(index, suite) ==
    [index |-> index, suite |-> suite, name |-> SuiteName(suite), envs |-> SuiteEnvs(suite)]

\* one directory or file operation of create_log_file, by the Runner of index
\* on the path under the log path of the run
FileOp(effect, index, path) ==
    [op |-> effect.op, ok |-> effect.ok, index |-> index, path |-> path]

\* whether directory path exists under the log path of the run
DirectoryExists(fs, path) ==
    \E k \in 1..Len(fs) : fs[k].op = "mkdir" /\ fs[k].ok /\ fs[k].path = path

\* DirBuilder creating the missing directories and accepting an existing one
LogFailuresRecursive(exists) == {"none"} \cup LogFailures

\* what create_log_file can meet: DirBuilder::new().create(path) fails on a
\* directory that exists
LogFailuresFor(exists) == IF exists THEN {"log_directory"} ELSE {"none"} \cup LogFailures

NamedSuiteLists == UNION {[1..n -> NamedSuites] : n \in 0..MaxNamedSuites}

\* a configuration read, no Runner built yet, the log path of the run empty
SuiteInit ==
    /\ suites \in NamedSuiteLists
    /\ concurrent_limit = None
    /\ cli_report_binary = None
    /\ cpu_itensive = QueueNew(<<>>, 0, cli_report_binary)
    /\ regular = QueueNew(<<>>, 0, cli_report_binary)
    /\ pc = "off"
    /\ calls = <<>>
    /\ transfers = 0
    /\ job = Unbuilt
    /\ domain = "absent"
    /\ effects = <<>>
    /\ exited = None
    /\ poll = None
    /\ removals = <<>>
    /\ build_image = FALSE
    /\ day = 2
    /\ steps = <<>>
    /\ reports = <<>>
    /\ result = None
    /\ derived = <<>>
    /\ named = <<>>
    /\ files = <<>>

\* Scheduler::new builds the Runner of the next suite: Runner::new calls
\* suite.name() and suite.envs()
SuiteConstruct ==
    /\ Len(named) < Len(suites)
    /\ derived' = Append(derived, Call(Len(named), suites[Len(named) + 1]))
    /\ named' = Append(named, NamedRunner(Len(named), suites[Len(named) + 1]))
    /\ UNCHANGED files
    /\ UNCHANGED schedulerVars
    /\ UNCHANGED runnerVars
    /\ UNCHANGED ciVars

\* name() and envs() are called once more on the suite of index i
SuiteCall(i) ==
    /\ Cardinality({k \in 1..Len(derived) : derived[k].index = i}) = 1
    /\ derived' = Append(derived, Call(i, suites[i + 1]))
    /\ UNCHANGED <<named, files>>
    /\ UNCHANGED schedulerVars
    /\ UNCHANGED runnerVars
    /\ UNCHANGED ciVars

\* schedule() calls run() on the Runner of index i: create_log_file on its log
\* path; the Runner goes on to its VM, or is Finished with the error
LogRun(i) ==
    /\ Len(named) = Len(suites)
    /\ named[i + 1].state = "New"
    /\ \E fail \in LogFailuresFor(DirectoryExists(files, named[i + 1].log_path)) :
        LET created == CreateLogFile(fail)
        IN  /\ files' = files \o [k \in 1..Len(created.effects) |->
                                    FileOp(created.effects[k], i, named[i + 1].log_path)]
            /\ named' = [named EXCEPT ![i + 1].state =
                                            IF created.error = NoError THEN "Running"
                                            ELSE "Finished",
                                      ![i + 1].error = created.error]
    /\ UNCHANGED derived
    /\ UNCHANGED schedulerVars
    /\ UNCHANGED runnerVars
    /\ UNCHANGED ciVars

SuiteNext ==
    \/ SuiteConstruct
    \/ (\E i \in Indexes(suites) : SuiteCall(i))
    \/ (\E i \in Indexes(suites) : LogRun(i))

SuiteSpec == SuiteInit /\ [][SuiteNext]_vars

\* ---------------------------------------------- ContinuousIntegration::run
\* Result<()> of ContinuousIntegration::run
Ok == [ok |-> TRUE]
Err(error) == [ok |-> FALSE, error |-> error]

\* main: Ok(()) is exit status 0, an error is exit status 1
ExitStatus(res) == IF res = Ok THEN 0 ELSE 1

\* the suite lists: regular and cpu-intensive suites in turn
CiSuiteLists ==
    {[k \in 1..n |-> IF k % 2 = 1 THEN "System" ELSE "Unit"] : n \in 0..MaxCiSuites}
CiLimits == {None, Some(2)}

\* ContinuousIntegration::new, and main about to call run()
CiInit ==
    /\ suites \in CiSuiteLists
    /\ concurrent_limit \in CiLimits
    /\ cli_report_binary \in {None, Some("cli-report")}
    /\ build_image \in BOOLEAN
    /\ day \in Days
    /\ cpu_itensive = SchedulerNew(suites, concurrent_limit, cli_report_binary).cpu_itensive
    /\ regular = SchedulerNew(suites, concurrent_limit, cli_report_binary).regular
    /\ pc = "create_log_directory"
    /\ calls = [i \in Indexes(suites) |->
                    [run |-> 0, finish |-> 0, misapplied |-> FALSE, failed |-> FALSE]]
    /\ transfers = 0
    /\ job = Unbuilt
    /\ domain = "absent"
    /\ effects = <<>>
    /\ exited = None
    /\ poll = None
    /\ removals = <<>>
    /\ steps = <<>>
    /\ reports = <<>>
    /\ result = None
    /\ derived = <<>>
    /\ named = <<>>
    /\ files = <<>>

\* self.create_log_directory()?
CreateLogDirectory ==
    /\ pc = "create_log_directory"
    /\ \E ok \in BOOLEAN :
        /\ steps' = Append(steps, Did("create_log_directory", ok))
        /\ pc' = IF ok THEN "git_update" ELSE "exit"
        /\ result' = IF ok THEN result ELSE Err("LogDirectory")
    /\ UNCHANGED <<suites, concurrent_limit, cpu_itensive, regular, calls, transfers>>
    /\ UNCHANGED runnerVars
    /\ UNCHANGED suiteVars
    /\ UNCHANGED <<cli_report_binary, build_image, day, reports>>

\* self.git_update()?
GitUpdate ==
    /\ pc = "git_update"
    /\ \E ok \in BOOLEAN :
        /\ steps' = Append(steps, Did("git_update", ok))
        /\ pc' = IF ok THEN "reporting_start" ELSE "exit"
        /\ result' = IF ok THEN result ELSE Err("Git")
    /\ UNCHANGED <<suites, concurrent_limit, cpu_itensive, regular, calls, transfers>>
    /\ UNCHANGED runnerVars
    /\ UNCHANGED suiteVars
    /\ UNCHANGED <<cli_report_binary, build_image, day, reports>>

\* if let Some(reporting) ... { commit_hash()?; reporting.start(&hash) }
PipelineStart ==
    /\ pc = "reporting_start"
    /\ IF cli_report_binary.some
       THEN \E hash_ok \in BOOLEAN, outcome \in Sidecar :
                /\ steps' = Append(steps, Did("commit_hash", hash_ok))
                /\ reports' = IF hash_ok THEN Append(reports, ReportingStart(outcome))
                              ELSE reports
                /\ pc' = IF hash_ok THEN "update" ELSE "exit"
                /\ result' = IF hash_ok THEN result ELSE Err("Git")
       ELSE /\ pc' = "update"
            /\ UNCHANGED <<steps, reports, result>>
    /\ UNCHANGED <<suites, concurrent_limit, cpu_itensive, regular, calls, transfers>>
    /\ UNCHANGED runnerVars
    /\ UNCHANGED suiteVars
    /\ UNCHANGED <<cli_report_binary, build_image, day>>

\* update() rebuilding the base image on every run
UpdateStepsAlwaysRebuild(build, d, rebuild_ok, update_ok) ==
    <<Did("rebuild", rebuild_ok)>>
    \o (IF rebuild_ok THEN <<Did("update", update_ok)>> ELSE <<>>)

\* ContinuousIntegration::update: vm.rebuild()? when the build was requested or
\* the day is BUILD_AT_DAY, then vm.update()?
UpdateSteps(build, d, rebuild_ok, update_ok) ==
    IF build \/ d = BUILD_AT_DAY
    THEN <<Did("rebuild", rebuild_ok)>>
         \o (IF rebuild_ok THEN <<Did("update", update_ok)>> ELSE <<>>)
    ELSE <<Did("update", update_ok)>>

\* run_inner going on to self.scheduler.run() whatever update() returned
UpdateIgnoringFailure ==
    /\ pc = "update"
    /\ \E rebuild_ok, update_ok \in BOOLEAN :
        steps' = steps \o UpdateSteps(build_image, day, rebuild_ok, update_ok)
    /\ pc' = "cpu_step"
    /\ UNCHANGED <<suites, concurrent_limit, cpu_itensive, regular, calls, transfers>>
    /\ UNCHANGED runnerVars
    /\ UNCHANGED suiteVars
    /\ UNCHANGED <<cli_report_binary, build_image, day, reports, result>>

\* run_inner: self.update()?; self.scheduler.run()
Update ==
    /\ pc = "update"
    /\ \E rebuild_ok, update_ok \in BOOLEAN :
        LET issued == UpdateSteps(build_image, day, rebuild_ok, update_ok)
        IN  /\ steps' = steps \o issued
            /\ IF \A k \in 1..Len(issued) : issued[k].ok
               THEN pc' = "cpu_step" /\ UNCHANGED result
               ELSE pc' = "reporting_finish" /\ result' = Err("BaseVm")
    /\ UNCHANGED <<suites, concurrent_limit, cpu_itensive, regular, calls, transfers>>
    /\ UNCHANGED runnerVars
    /\ UNCHANGED suiteVars
    /\ UNCHANGED <<cli_report_binary, build_image, day, reports>>

\* run_inner returning Ok(()) whenever the reports could be written
RunInnerIgnoresJobs(finished, html_ok, symlink_ok, email) ==
    CASE ~html_ok ->
            [result |-> Err("HtmlReport"), steps |-> <<Did("save_html_report", FALSE)>>]
      [] ~symlink_ok ->
            [result |-> Err("LogDirectory"),
             steps |-> <<Did("save_html_report", TRUE), Did("create_latest_symlink", FALSE)>>]
      [] OTHER ->
            [result |-> Ok,
             steps |-> <<Did("save_html_report", TRUE), Did("create_latest_symlink", TRUE)>>]

\* run_inner after self.scheduler.run(): the HTML report, the `latest` link,
\* and for a run with a failed job the e-mail report and Error::Failure
RunInner(finished, html_ok, symlink_ok, email) ==
    CASE ~html_ok ->
            [result |-> Err("HtmlReport"), steps |-> <<Did("save_html_report", FALSE)>>]
      [] ~symlink_ok ->
            [result |-> Err("LogDirectory"),
             steps |-> <<Did("save_html_report", TRUE), Did("create_latest_symlink", FALSE)>>]
      [] ShouldFail(finished) /\ email = "none" ->
            [result |-> Err("Failure"),
             steps |-> <<Did("save_html_report", TRUE), Did("create_latest_symlink", TRUE)>>]
      [] ShouldFail(finished) ->
            [result |-> IF email = "ok" THEN Err("Failure") ELSE Err("EmailReport"),
             steps |-> <<Did("save_html_report", TRUE), Did("create_latest_symlink", TRUE),
                         Did("email", email = "ok")>>]
      [] OTHER ->
            [result |-> Ok,
             steps |-> <<Did("save_html_report", TRUE), Did("create_latest_symlink", TRUE)>>]

\* Scheduler::run has returned: the rest of run_inner
Report ==
    /\ pc = "done"
    /\ \E html_ok, symlink_ok \in BOOLEAN, email \in Emails :
        LET inner == RunInner(Finished, html_ok, symlink_ok, email)
        IN  /\ steps' = steps \o inner.steps
            /\ result' = inner.result
    /\ pc' = "reporting_finish"
    /\ UNCHANGED <<suites, concurrent_limit, cpu_itensive, regular, calls, transfers>>
    /\ UNCHANGED runnerVars
    /\ UNCHANGED suiteVars
    /\ UNCHANGED <<cli_report_binary, build_image, day, reports>>

\* run() returning the error of run_inner before reporting.finish
PipelineFinishUnlessError ==
    /\ pc = "reporting_finish"
    /\ IF cli_report_binary.some /\ (result = Ok \/ result = Err("Failure"))
       THEN \E outcome \in Sidecar :
                reports' = Append(reports, ReportingFinish(TRUE, outcome))
       ELSE UNCHANGED reports
    /\ pc' = "exit"
    /\ UNCHANGED result
    /\ UNCHANGED <<suites, concurrent_limit, cpu_itensive, regular, calls, transfers>>
    /\ UNCHANGED runnerVars
    /\ UNCHANGED suiteVars
    /\ UNCHANGED <<cli_report_binary, build_image, day, steps>>

\* if let Some(reporting) ... reporting.finish(...); result
PipelineFinish ==
    /\ pc = "reporting_finish"
    /\ IF cli_report_binary.some
       THEN \E outcome \in Sidecar :
                reports' = Append(reports,
                                  ReportingFinish(result = Ok \/ result = Err("Failure"),
                                                  outcome))
       ELSE UNCHANGED reports
    /\ pc' = "exit"
    /\ UNCHANGED result
    /\ UNCHANGED <<suites, concurrent_limit, cpu_itensive, regular, calls, transfers>>
    /\ UNCHANGED runnerVars
    /\ UNCHANGED suiteVars
    /\ UNCHANGED <<cli_report_binary, build_image, day, steps>>

CiNext ==
    \/ CreateLogDirectory \/ GitUpdate \/ PipelineStart \/ Update
    \/ Return \/ CpuStep \/ RegularStep \/ YieldCheck
    \/ (\E i \in Indexes(suites) : ProcExit(i))
    \/ Report \/ PipelineFinish

CiSpec == CiInit /\ [][CiNext]_vars

\* environment: a started job process exits
ProcExits == \E i \in Indexes(suites) : ProcExit(i)

Next == SchedulerRun \/ ProcExits

Spec == Init /\ [][Next]_vars

\* ENABLED <<SchedulerRun>>_vars as a state predicate: inside Scheduler::run
\* one of Return, CpuStep, RegularStep and YieldCheck can be taken, and each
\* of them moves pc
SchedulerRunning == pc \in {"cpu_step", "regular_step", "yield"}

\* WF_vars(SchedulerRun), written out with SchedulerRunning for the ENABLED
SchedulerFair == []<>(~SchedulerRunning) \/ []<><<SchedulerRun>>_vars

\* the scheduler thread keeps running, and started job processes keep exiting
\* while there are any (finitely many are started, so each of them exits)
FairSpec == Spec /\ SchedulerFair /\ WF_vars(ProcExits)

\* ------------------------------------------------------------------ claims
\* every Runner record the two queues hold
AllRunners ==
    cpu_itensive.waiting \o cpu_itensive.running \o cpu_itensive.finished
    \o regular.waiting \o regular.running \o regular.finished

\* how many records of sequence seq carry index i
Occurrences(seq, i) == Cardinality({k \in 1..Len(seq) : seq[k].index = i})

QueueSize(q) == Len(q.waiting) + Len(q.running) + Len(q.finished)

QueueIndexes(q) == {r.index : r \in Range(q.waiting \o q.running \o q.finished)}

\* whether sequence seq holds a record of index i
Holds(seq, i) == \E k \in 1..Len(seq) : seq[k].index = i

\* Runner i is held as New, as Running, as Finished
IsNew(i) == Holds(cpu_itensive.waiting, i) \/ Holds(regular.waiting, i)
IsRunning(i) == Holds(cpu_itensive.running, i) \/ Holds(regular.running, i)
IsFinishedRunner(i) == Holds(cpu_itensive.finished, i) \/ Holds(regular.finished, i)

\* the states Runner i is in, by the vectors that hold it
StatesOf(i) ==
    (IF IsNew(i) THEN {"New"} ELSE {})
    \cup (IF IsRunning(i) THEN {"Running"} ELSE {})
    \cup (IF IsFinishedRunner(i) THEN {"Finished"} ELSE {})

\* sequence s is the beginning of sequence t
IsPrefix(s, t) == Len(s) <= Len(t) /\ \A k \in 1..Len(s) : t[k] = s[k]

\* the Finished records of Runner i
FinishedOf(i) == {r \in Range(Finished) : r.index = i}

\* C1: in every state (so after every step() and at every tick boundary, also in
\* the ticks that change the limits) no queue has more running Runners than its
\* current limit.
C1_RunningWithinLimit ==
    /\ Len(cpu_itensive.running) <= cpu_itensive.limit
    /\ Len(regular.running) <= regular.limit

\* after the capacity transfer the regular queue runs as many Runners as its new
\* limit allows, with more waiting
C1_Witness ==
    /\ transfers = 1
    /\ pc = "yield"
    /\ regular.limit > 1
    /\ Len(regular.running) = regular.limit
    /\ regular.waiting # <<>>

\* C2: every Runner built at construction is in exactly one of the six vectors,
\* in the queue it was built into, so each queue keeps the number of Runners it
\* was constructed with.
C2_Partition ==
    /\ \A i \in Indexes(suites) : Occurrences(AllRunners, i) = 1
    /\ Len(AllRunners) = Len(suites)
    /\ QueueIndexes(cpu_itensive) = QueueIndexes(SchedulerNew(suites, concurrent_limit, cli_report_binary).cpu_itensive)
    /\ QueueIndexes(regular) = QueueIndexes(SchedulerNew(suites, concurrent_limit, cli_report_binary).regular)
    /\ QueueSize(cpu_itensive) = QueueSize(SchedulerNew(suites, concurrent_limit, cli_report_binary).cpu_itensive)
    /\ QueueSize(regular) = QueueSize(SchedulerNew(suites, concurrent_limit, cli_report_binary).regular)

\* a tick boundary with Runners waiting, running and finished
C2_Witness ==
    /\ pc = "cpu_step"
    /\ regular.waiting # <<>>
    /\ regular.running # <<>>
    /\ cpu_itensive.finished # <<>>

\* C3, the states: a Runner is in one state, run() and finish() were called on it
\* at most once, run() on a New Runner and finish() on a Running one only.
C3_OneState ==
    /\ \A k \in 1..Len(cpu_itensive.waiting) : cpu_itensive.waiting[k].state = "New"
    /\ \A k \in 1..Len(regular.waiting) : regular.waiting[k].state = "New"
    /\ \A k \in 1..Len(cpu_itensive.running) : cpu_itensive.running[k].state = "Running"
    /\ \A k \in 1..Len(regular.running) : regular.running[k].state = "Running"
    /\ \A k \in 1..Len(cpu_itensive.finished) : cpu_itensive.finished[k].state = "Finished"
    /\ \A k \in 1..Len(regular.finished) : regular.finished[k].state = "Finished"
    /\ \A i \in Indexes(suites) :
        /\ \/ IsNew(i) /\ ~IsRunning(i) /\ ~IsFinishedRunner(i)
           \/ ~IsNew(i) /\ IsRunning(i) /\ ~IsFinishedRunner(i)
           \/ ~IsNew(i) /\ ~IsRunning(i) /\ IsFinishedRunner(i)
        /\ calls[i].run <= 1
        /\ calls[i].finish <= 1
        /\ ~calls[i].misapplied
        /\ IsNew(i) <=> (calls[i].run = 0)
        /\ IsRunning(i) => (calls[i].finish = 0)

\* C3, the moves: New -> Running, New -> Finished, Running -> Finished, and a
\* Finished Runner stays as it is (the finished vectors only grow at their end).
C3_Moves ==
    /\ IsPrefix(cpu_itensive.finished, cpu_itensive.finished')
    /\ IsPrefix(regular.finished, regular.finished')
    /\ \A i \in Indexes(suites) :
        \/ IsNew(i)
        \/ IsRunning(i) /\ ~IsNew(i)'
        \/ IsFinishedRunner(i) /\ ~IsNew(i)' /\ ~IsRunning(i)'

\* C3: every Runner moves only along New -> Running -> Finished or
\* New -> Finished, run() and finish() are applied at most once and to the state
\* they are defined on, and a Finished Runner never changes.
C3_Lifecycle == []C3_OneState /\ [][C3_Moves]_vars

\* one Runner went New -> Finished (run() failed), another New -> Running -> Finished
C3_Witness ==
    \E i, j \in Indexes(suites) :
        /\ StatesOf(i) = {"Finished"} /\ calls[i].run = 1 /\ calls[i].finish = 0
        /\ StatesOf(j) = {"Finished"} /\ calls[j].run = 1 /\ calls[j].finish = 1

\* C4: when Scheduler::run has returned, both queues have empty waiting and
\* running vectors and finished() holds exactly one Finished Runner per suite.
C4_ReturnsWhenAllFinished ==
    (pc = "done") =>
        /\ cpu_itensive.waiting = <<>> /\ cpu_itensive.running = <<>>
        /\ regular.waiting = <<>> /\ regular.running = <<>>
        /\ Len(Finished) = Len(suites)
        /\ \A i \in Indexes(suites) : Occurrences(Finished, i) = 1
        /\ \A r \in Range(Finished) : r.state = "Finished" /\ r.name = suites[r.index + 1]

\* run() has returned with Finished Runners in both queues
C4_Witness ==
    /\ pc = "done"
    /\ Len(cpu_itensive.finished) >= 1
    /\ Len(regular.finished) >= 2

\* every Runner is Finished
AllFinished == \A i \in Indexes(suites) : StatesOf(i) = {"Finished"}

\* C5: if the scheduler keeps running and every started job process exits,
\* Scheduler::run returns with every Runner Finished, whatever the suite list
\* and the configured limit (absent, 0, 1 or larger).
C5_RunReturns == <>(pc = "done" /\ AllFinished)

\* the overall limit L of the configuration, 1 when none is configured
C6_L == IF concurrent_limit = None THEN 1 ELSE concurrent_limit.value

\* C6: until the capacity transfer the limits are those of the construction:
\* cpu-intensive (L div 4) + 1 when L > 1 and 0 otherwise, regular L minus that;
\* L = 4 gives 2 and 2.
C6_LimitSplit ==
    (transfers = 0) =>
        /\ cpu_itensive.limit = (IF C6_L > 1 THEN (C6_L \div 4) + 1 ELSE 0)
        /\ regular.limit = C6_L - cpu_itensive.limit
        /\ (concurrent_limit = Some(4)) => (cpu_itensive.limit = 2 /\ regular.limit = 2)
        /\ (concurrent_limit \in {None, Some(0), Some(1)}) => (cpu_itensive.limit = 0)

\* a Scheduler just built with overall limit 4
C6_Witness ==
    /\ concurrent_limit = Some(4)
    /\ cpu_itensive.limit = 2 /\ regular.limit = 2
    /\ cpu_itensive.waiting # <<>> /\ regular.waiting # <<>>
    /\ \A i \in Indexes(suites) : calls[i].run = 0

\* the yield check of an iteration is taken
C7_AtYieldCheck == pc = "yield" /\ pc' = "cpu_step"

\* C7, the step: at a yield check that finds the cpu-intensive queue with empty
\* waiting and running vectors and a limit > 0, the whole limit moves to the
\* regular queue; at any other yield check the limits stay.
C7_Step ==
    C7_AtYieldCheck =>
        IF cpu_itensive.waiting = <<>> /\ cpu_itensive.running = <<>> /\ cpu_itensive.limit > 0
        THEN /\ regular.limit' = regular.limit + cpu_itensive.limit
             /\ cpu_itensive.limit' = 0
             /\ transfers' = transfers + 1
        ELSE /\ regular.limit' = regular.limit
             /\ cpu_itensive.limit' = cpu_itensive.limit
             /\ transfers' = transfers

\* C7, afterwards: once transferred, the regular limit is the overall limit
C7_After ==
    (transfers >= 1) => (regular.limit = C6_L /\ cpu_itensive.limit = 0)

\* C7: the first yield check that finds the cpu-intensive queue drained with
\* limit > 0 adds its whole limit to the regular queue's and zeroes it; from then
\* on the regular limit is the overall configured limit (2 becomes 4 for limit 4).
C7_Transfer == []C7_After /\ [][C7_Step]_vars

\* overall limit 4: the cpu-intensive suites have finished, the regular limit is 4
C7_Witness ==
    /\ concurrent_limit = Some(4)
    /\ transfers = 1
    /\ cpu_itensive.finished # <<>>
    /\ regular.limit = 4
    /\ regular.running # <<>>

\* C8, the steps: the cpu-intensive limit never grows, the regular limit never
\* shrinks, and a cpu-intensive limit of 0 stays 0.
C8_Step ==
    /\ cpu_itensive.limit' <= cpu_itensive.limit
    /\ regular.limit' >= regular.limit
    /\ (cpu_itensive.limit = 0) => (cpu_itensive.limit' = 0)

\* C8: the capacity transfer is one-way and one-shot: it happens at most once in
\* a run, the cpu-intensive limit never increases, the regular limit never
\* decreases, and the cpu-intensive limit stays 0 once it is 0.
C8_OneWayOneShot == [](transfers <= 1) /\ [][C8_Step]_vars

\* a whole run with its one transfer
C8_Witness ==
    /\ pc = "done"
    /\ transfers = 1
    /\ cpu_itensive.limit = 0
    /\ cpu_itensive.finished # <<>> /\ regular.finished # <<>>

\* C9 as stated: for every overall limit the cpu-intensive suites are in the
\* cpu-intensive queue and the others in the regular queue, each Runner carrying
\* the index of its suite.
C9_PartitionAnyLimit ==
    \A i \in Indexes(suites) :
        /\ (i \in QueueIndexes(cpu_itensive)) <=> IsCpuIntensive(suites[i + 1])
        /\ (i \in QueueIndexes(regular)) <=> ~IsCpuIntensive(suites[i + 1])
        /\ \A r \in Range(AllRunners) : (r.index = i) => (r.name = suites[i + 1])

\* C9 amended: that partition holds for an overall limit of 2 or more; with the
\* limit absent, 0 or 1 every suite is in the regular queue.  Each Runner carries
\* the index of its suite in either queue.
C9_Partition ==
    \A i \in Indexes(suites) :
        /\ (i \in QueueIndexes(cpu_itensive)) <=> (C6_L >= 2 /\ IsCpuIntensive(suites[i + 1]))
        /\ (i \in QueueIndexes(regular)) <=> ~(C6_L >= 2 /\ IsCpuIntensive(suites[i + 1]))
        /\ \A r \in Range(AllRunners) : (r.index = i) => (r.name = suites[i + 1])

\* a Scheduler built with a limit of 2 or more: a regular suite listed before a
\* cpu-intensive one, each in its queue under its own index
C9_Witness ==
    /\ C6_L >= 2
    /\ Len(suites) >= 2
    /\ ~IsCpuIntensive(suites[1]) /\ IsCpuIntensive(suites[2])
    /\ \E r \in Range(cpu_itensive.waiting) : r.index = 1
    /\ \E r \in Range(regular.waiting) : r.index = 0

\* C10: a per-job error (startup or runtime) never aborts the run: Scheduler::run
\* returns only with every Runner admitted and Finished, whichever jobs failed,
\* and all the failures are in finished() together, each carrying its error.
C10_ErrorsDoNotAbort ==
    (pc = "done") =>
        /\ AllFinished
        /\ \A i \in Indexes(suites) :
            /\ calls[i].run = 1
            /\ Cardinality(FinishedOf(i)) = 1
            /\ \A r \in FinishedOf(i) : calls[i].failed <=> ~Success(r)

\* a run that returned with a startup failure, a runtime failure and a success
C10_Witness ==
    /\ pc = "done"
    /\ \E i, j, k \in Indexes(suites) :
        /\ calls[i].failed /\ calls[i].finish = 0
        /\ calls[j].failed /\ calls[j].finish = 1
        /\ ~calls[k].failed /\ \A r \in FinishedOf(k) : Success(r)

\* ------------------------------------------- claims on one Runner and its VM
\* the operations of create_log_file, of Vm::start and of Vm::command_spawn
LogOps == {"mkdir", "create_file", "write"}
StartOps == {"virsh_list", "remove_files", "write_xml", "qemu_img_create", "virsh_create",
             "ssh_echo"}
SpawnOps == {"clone_log_fd", "ssh_spawn"}

\* the order the claims give to the steps of run()
RunOrder ==
    <<"mkdir", "create_file", "write", "virsh_list", "remove_files", "write_xml",
      "qemu_img_create", "virsh_create", "ssh_echo", "clone_log_fd", "ssh_spawn">>

\* whether operation op was issued, whether it was issued and succeeded / failed
Issued(op) == \E k \in 1..Len(effects) : effects[k].op = op
Succeeded(op) == \E k \in 1..Len(effects) : effects[k] = Did(op, TRUE)
Failed(op) == \E k \in 1..Len(effects) : effects[k].op = op /\ ~effects[k].ok
NotExecuted(op) == \E k \in 1..Len(effects) : effects[k] = Unexecuted(op)

\* how often operation op was issued
Count(op) == Cardinality({k \in 1..Len(effects) : effects[k].op = op})

\* how many steps of run() were issued
RunSteps == Cardinality({k \in 1..Len(effects) : effects[k].op \in LogOps \cup StartOps \cup SpawnOps})

\* run() was called and went through all its steps
RanThrough == RunSteps = Len(RunOrder) /\ effects[Len(RunOrder)].ok

\* C11: run() issues the log directory, the log file and its header, the steps of
\* the VM start and the spawn in that order, each at most once, and nothing of
\* run() after the first step that fails; the Runner is then Finished with the
\* error of that step.  A failed log directory or log file means no step of the
\* VM start and no spawn, a failed VM start means no spawn.
C11_RunStopsAtFirstFailure ==
    (job.state \in {"Running", "Finished"}) =>
        /\ RunSteps >= 1
        /\ \A k \in 1..RunSteps : effects[k].op = RunOrder[k]
        /\ \A k \in 1..(RunSteps - 1) :
                effects[k].ok \/ effects[k] = StatusFailed("virsh_list")
        /\ (job.state = "Running") => RanThrough
        /\ ~RanThrough =>
            /\ job.state = "Finished"
            /\ ~Issued("scp") /\ ~Issued("wait")
            /\ ~Succeeded("ssh_spawn")
            /\ (RunSteps = 1) => (job.error = Error("LogDirectory") /\ Failed("mkdir"))
            /\ (RunSteps = 2) => (job.error = Error("LogFile") /\ Failed("create_file"))
            /\ (RunSteps = 3) => (job.error = Error("LogWrite") /\ Failed("write"))
            /\ (RunSteps <= 3) =>
                    \A k \in 1..Len(effects) : effects[k].op \notin StartOps \cup SpawnOps
            /\ (RunSteps \in 4..9) =>
                    /\ job.error.kind = "Vm"
                    /\ \A k \in 1..Len(effects) : effects[k].op \notin SpawnOps
            /\ (RunSteps \in 10..11) => (~Success(job) /\ ~effects[RunSteps].ok)

\* run() failed at the ready check of the VM: the log and the domain were
\* created, nothing was spawned
C11_Witness ==
    /\ job.state = "Finished"
    /\ RunSteps = 9
    /\ Succeeded("write") /\ Succeeded("virsh_create") /\ Failed("ssh_echo")
    /\ ~Issued("ssh_spawn")

\* C12 as stated: when the spawn of the job command fails in run(), the Runner is
\* Finished with the error RunnerStart, another error than the Vm error of a
\* failed VM start.
C12_SpawnFailureIsRunnerStart ==
    Failed("ssh_spawn") =>
        /\ job.state = "Finished"
        /\ job.error = Error("RunnerStart")
        /\ job.error.kind # "Vm"

\* C12 amended: when the spawn of the job command fails in run(), the Runner is
\* Finished with the error Vm, the variant a failed VM start is recorded with: it
\* wraps the VM's Command("ssh") error, or LogFileDescriptor when the log
\* descriptor could not be cloned for the spawn.
C12_SpawnFailureIsVm ==
    /\ Failed("ssh_spawn") =>
        /\ job.state = "Finished"
        /\ job.error = VmError("Command(ssh)")
    /\ Failed("clone_log_fd") =>
        /\ job.state = "Finished"
        /\ job.error = VmError("LogFileDescriptor")
    /\ (Failed("ssh_spawn") \/ Failed("clone_log_fd")) =>
        /\ Succeeded("virsh_create") /\ Succeeded("ssh_echo")
        /\ ~Success(job)

\* the VM is up and the spawn over ssh failed
C12_Witness ==
    /\ Failed("ssh_spawn")
    /\ Succeeded("virsh_create")
    /\ job.state = "Finished"

\* finish() was called on the Runner
FinishCalled == job.state = "Finished" /\ Issued("scp")

\* C13 as stated: finish() classifies by the process outcome: exit code 0 gives
\* no error, a nonzero exit code c gives ReturnCode(c) and success() false, a
\* failed wait gives RunnerFinnish.
C13_FinishClassifies ==
    FinishCalled =>
        /\ Failed("wait") => (job.error = Error("RunnerFinnish"))
        /\ (~Failed("wait") /\ exited = Some(0)) => (job.error = NoError)
        /\ \A c \in ExitCodes \ {0} :
            (~Failed("wait") /\ exited = Some(c)) =>
                (job.error = ReturnCode(c) /\ ~Success(job))

\* C13 amended: when the artifact retrieval of finish() could be executed, so
\* that finish() waits for the process, exit code 0 gives no error, a nonzero
\* exit code c gives ReturnCode(c) and success() false, and a failed wait gives
\* RunnerFinnish.
C13_FinishClassifiesAfterArtifacts ==
    (FinishCalled /\ (Issued("wait") \/ ~Failed("scp"))) =>
        /\ Issued("wait")
        /\ Failed("wait") => (job.error = Error("RunnerFinnish"))
        /\ (Succeeded("wait") /\ exited = Some(0)) => (job.error = NoError /\ Success(job))
        /\ \A c \in ExitCodes \ {0} :
            (Succeeded("wait") /\ exited = Some(c)) =>
                (job.error = ReturnCode(c) /\ ~Success(job))
        /\ Succeeded("wait") => (exited # None)

\* the job script exited with code 3 and finish() recorded ReturnCode(3)
C13_Witness ==
    /\ FinishCalled
    /\ Succeeded("wait")
    /\ exited = Some(3)
    /\ job.error = ReturnCode(3)
    /\ ~Success(job)

\* C14 as stated: a Finished Runner has success() true iff no error was recorded,
\* and, when its job process produced an exit code, iff that code was 0.
C14_SuccessIffExitZero ==
    (job.state = "Finished") =>
        /\ Success(job) <=> (job.error = NoError)
        /\ (exited # None) => (Success(job) <=> (exited = Some(0)))

\* C14 amended: a Finished Runner has success() true iff no error was recorded,
\* and, when finish() obtained the exit code of the job process from wait(), iff
\* that code was 0; without an exit code obtained (run() failed, the artifacts
\* could not be fetched, wait() failed) success() is false.
C14_SuccessIffWaitedExitZero ==
    (job.state = "Finished") =>
        /\ Success(job) <=> (job.error = NoError)
        /\ Succeeded("wait") => (exited # None /\ (Success(job) <=> (exited = Some(0))))
        /\ ~Succeeded("wait") => ~Success(job)

\* a Runner finished with success after its job process exited with code 0
C14_Witness ==
    /\ job.state = "Finished"
    /\ Succeeded("wait")
    /\ exited = Some(0)
    /\ Success(job)

\* C15 as stated: a failed artifact retrieval in finish() never becomes the
\* recorded error of the Finished Runner, never makes success() false for a job
\* whose process exited 0, and never makes the run fail.
C15_ArtifactErrorOnlyLogged ==
    (FinishCalled /\ Failed("scp")) =>
        /\ job.error.kind # "Vm"
        /\ (exited = Some(0) /\ ~Failed("wait")) =>
                (Success(job) /\ ~ShouldFail(<<job>>))

\* C15 amended: an scp that runs and fails is ignored: finish() goes on to wait()
\* and classifies the job by its process outcome.  An scp that cannot be
\* executed becomes the recorded error (Vm) of the Finished Runner without
\* wait() being called: success() is false also when the process exited 0, and
\* the run fails.  The VM is destroyed in both cases.
C15_ArtifactError ==
    FinishCalled =>
        /\ NotExecuted("scp") =>
            /\ job.error = VmError("Command(virt-copy-out)")
            /\ ~Success(job)
            /\ ShouldFail(<<job>>)
            /\ ~Issued("wait")
        /\ (Failed("scp") /\ ~NotExecuted("scp")) =>
            /\ Issued("wait")
            /\ job.error.kind # "Vm"
            /\ (Succeeded("wait") /\ exited = Some(0)) =>
                    (Success(job) /\ ~ShouldFail(<<job>>))
        /\ Count("virsh_destroy") = 1

\* the job process exited 0, scp could not be executed, the Runner failed
C15_Witness ==
    /\ FinishCalled
    /\ NotExecuted("scp")
    /\ exited = Some(0)
    /\ job.error = VmError("Command(virt-copy-out)")

\* C16 as stated: a VM whose domain was instantiated is destroyed exactly once, at
\* the latest when its Runner becomes Finished, on every path; so between the
\* calls the live VMs are those of the Running Runners, and none is live once the
\* Runner is Finished.
C16_DestroyedWhenFinished ==
    /\ Count("virsh_destroy") <= 1
    /\ (job.state = "Finished" /\ Succeeded("virsh_create")) =>
            (Count("virsh_destroy") = 1 /\ domain # "own")
    /\ (domain = "own") <=> (job.state = "Running")

\* C16 amended: for a VM whose domain was instantiated `virsh destroy` is issued
\* exactly once, as the last command of the run() or finish() that makes its
\* Runner Finished, on every path.  The domain is stopped then, and the live VMs
\* are those of the Running Runners, when that command succeeds; when it fails
\* the domain stays up after its Runner is Finished.
C16_DestroyIssuedWhenFinished ==
    /\ Count("virsh_destroy") <= 1
    /\ (job.state = "Finished" /\ Succeeded("virsh_create")) =>
        /\ Count("virsh_destroy") = 1
        /\ \A k \in 1..Len(effects) :
            (effects[k].op = "virsh_destroy") =>
                \A j \in (k + 1)..Len(effects) : effects[j].op = "eprintln"
        /\ Succeeded("virsh_destroy") <=> (domain = "absent")
        /\ Failed("virsh_destroy") <=> (domain = "own")
    /\ (job.state = "Running") => (domain = "own" /\ ~Issued("virsh_destroy"))
    /\ (domain = "own") => (job.state = "Running" \/ Failed("virsh_destroy"))

\* the ready check failed in run(): the domain was instantiated, and destroyed
\* when run() returned the Finished Runner
C16_Witness ==
    /\ job.state = "Finished"
    /\ Succeeded("virsh_create")
    /\ Failed("ssh_echo")
    /\ Succeeded("virsh_destroy")
    /\ domain = "absent"

\* the VM operations other than the destroy that failed or were refused
OtherVmFailure ==
    \/ \E op \in StartOps \cup SpawnOps : Failed(op)
    \/ NotExecuted("scp")
    \/ (Succeeded("virsh_list") /\ ~Issued("remove_files"))

C18_AlreadyRunningTouchesNothing ==
    (job.state = "Finished" /\ job.error = VmError("AlreadyRunning")) =>
        /\ Count("virsh_list") = 1
        /\ effects[4] = Did("virsh_list", TRUE)
        /\ \A op \in (StartOps \ {"virsh_list"}) \cup SpawnOps : ~Issued(op)
        /\ \A k \in 5..Len(effects) : effects[k].op \in {"virsh_destroy", "eprintln"}
        /\ ~Success(job)

\* run() met a domain of the VM name already running
C18_Witness ==
    /\ job.state = "Finished"
    /\ job.error = VmError("AlreadyRunning")
    /\ Count("virsh_list") = 1
    /\ Succeeded("write")

\* C19: `virsh destroy` is issued for a VM name only after this program's
\* start() instantiated the domain: never for a Runner dropped as it was built,
\* never after a failed log creation, never after start() returned
\* AlreadyRunning, so a domain of that name that was already running stays up.
C19_DestroyOnlyAfterStart ==
    /\ \A k \in 1..Len(effects) :
        (effects[k].op = "virsh_destroy") =>
            \E j \in 1..(k - 1) : effects[j] = Did("virsh_create", TRUE)
    /\ (job.state = "Dropped") => ~Issued("virsh_destroy")
    /\ (job.state = "Finished" /\ job.error = VmError("AlreadyRunning")) =>
            (~Issued("virsh_destroy") /\ domain = "foreign")

SetupOps == {"create_log_directory", "git_update", "commit_hash", "rebuild", "update"}
ReportOps == {"save_html_report", "create_latest_symlink", "email"}

\* whether step op of ContinuousIntegration::run was issued, and failed
StepIssued(op) == \E k \in 1..Len(steps) : steps[k].op = op
StepFailed(op) == \E k \in 1..Len(steps) : steps[k] = Did(op, FALSE)
StepCount(op) == Cardinality({k \in 1..Len(steps) : steps[k].op = op})

\* a fatal setup step failed
SetupFailed == \E op \in SetupOps : StepFailed(op)

\* Scheduler::run was invoked
SchedulerInvoked == pc \in {"cpu_step", "regular_step", "yield", "done"} \/ StepIssued("save_html_report")

\* the HTML report and the `latest` link were written
ReportsWritten ==
    /\ steps # <<>>
    /\ \E k \in 1..Len(steps) : steps[k] = Did("save_html_report", TRUE)
    /\ \E k \in 1..Len(steps) : steps[k] = Did("create_latest_symlink", TRUE)

\* every Finished Runner of the run has success() true
AllSucceeded == \A k \in 1..Len(Finished) : Success(Finished[k])

\* C21 as stated: run() returns Ok (exit status 0) iff no fatal setup step failed
\* and every Finished Runner has success() true; a failed job or a failed fatal
\* setup step gives an error (exit status nonzero).
C21_OkIffSetupAndJobs ==
    (pc = "exit") =>
        /\ (ExitStatus(result) = 0) <=> (~SetupFailed /\ AllSucceeded)
        /\ (SetupFailed \/ ~AllSucceeded) => (ExitStatus(result) # 0)

\* C21 amended: run() returns Ok (exit status 0) iff no fatal setup step failed,
\* every Finished Runner has success() true, and the HTML report and the
\* `latest` link could be written after the jobs; a failed job, a failed fatal
\* setup step or a failed report gives an error (exit status 1).  A run with a
\* failed job returns Failure, or EmailReport when its e-mail could not be sent.
C21_OkIffSetupJobsAndReport ==
    (pc = "exit") =>
        /\ result # None
        /\ (ExitStatus(result) = 0) <=>
                (~SetupFailed /\ AllSucceeded
                 /\ ~StepFailed("save_html_report") /\ ~StepFailed("create_latest_symlink"))
        /\ (SetupFailed \/ ~AllSucceeded) => (ExitStatus(result) = 1)
        /\ (result = Ok) => (AllFinished /\ Len(Finished) = Len(suites))
        /\ (result \in {Err("Failure"), Err("EmailReport")}) <=>
                (~AllSucceeded /\ ReportsWritten)
        /\ (result = Err("EmailReport")) <=> StepFailed("email")

\* every job succeeded and the HTML report could not be written: exit status 1
C21_Witness ==
    /\ pc = "exit"
    /\ Len(Finished) = 2
    /\ AllSucceeded
    /\ ~SetupFailed
    /\ StepFailed("save_html_report")
    /\ ExitStatus(result) = 1

\* no Runner has left New: all are waiting, none was run
NoJobStarted ==
    /\ \A i \in Indexes(suites) : StatesOf(i) = {"New"} /\ calls[i].run = 0
    /\ Len(cpu_itensive.waiting) + Len(regular.waiting) = Len(suites)
    /\ \A k \in 1..Len(reports) : reports[k].event # "pipeline-result"

\* C22: once the run-level log directory, the source synchronization (git
\* update, commit hash), the base-image rebuild or the base-image update has
\* failed, Scheduler::run is never invoked and no Runner ever leaves New: run()
\* issues no further setup step and returns that step's error.
C22_SetupFailureAborts ==
    SetupFailed =>
        /\ ~SchedulerInvoked
        /\ pc \in {"reporting_finish", "exit"}
        /\ NoJobStarted
        /\ ~steps[Len(steps)].ok
        /\ \A k \in 1..(Len(steps) - 1) : steps[k].ok
        /\ \A op \in ReportOps : ~StepIssued(op)
        /\ result \in {Err("LogDirectory"), Err("Git"), Err("BaseVm")}
        /\ StepFailed("create_log_directory") <=> (result = Err("LogDirectory"))
        /\ (StepFailed("git_update") \/ StepFailed("commit_hash")) <=> (result = Err("Git"))
        /\ (StepFailed("rebuild") \/ StepFailed("update")) <=> (result = Err("BaseVm"))

\* the rebuild of the base image failed with two suites configured: run() has
\* returned and both Runners are still New
C22_Witness ==
    /\ pc = "exit"
    /\ StepFailed("rebuild")
    /\ Len(suites) = 2
    /\ NoJobStarted
    /\ result = Err("BaseVm")

\* the position of step op in the steps of the run, 0 when it was not issued
StepAt(op) ==
    IF StepIssued(op) THEN CHOOSE k \in 1..Len(steps) : steps[k].op = op ELSE 0

\* C23: in one run the base image is rebuilt at most once, and only when the
\* build was requested (--build-image) or the day of the month is 1; update() is
\* invoked at most once, after the rebuild when there is one and only if it
\* succeeded, and exactly once, successfully, before any job is admitted.
C23_BaseImageOncePerRun ==
    /\ StepCount("rebuild") <= 1
    /\ StepCount("update") <= 1
    /\ StepIssued("rebuild") => (build_image \/ day = BUILD_AT_DAY)
    /\ StepIssued("update") =>
            (StepIssued("rebuild") <=> (build_image \/ day = BUILD_AT_DAY))
    /\ (StepIssued("rebuild") /\ StepIssued("update")) =>
            (StepAt("rebuild") < StepAt("update") /\ ~StepFailed("rebuild"))
    /\ StepFailed("rebuild") => ~StepIssued("update")
    /\ (SchedulerInvoked \/ ~NoJobStarted) =>
            (StepCount("update") = 1 /\ ~StepFailed("update"))
    /\ ~StepIssued("update") => (NoJobStarted /\ ~SchedulerInvoked)

\* a run on the first day of the month, the build not requested: the image was
\* rebuilt, then updated, and a job has been admitted
C23_Witness ==
    /\ ~build_image
    /\ day = BUILD_AT_DAY
    /\ StepAt("rebuild") > 0
    /\ StepAt("update") = StepAt("rebuild") + 1
    /\ ~NoJobStarted

\* an invocation of the reporting sidecar could not be executed
SidecarFailed == \E k \in 1..Len(reports) : ~reports[k].ok

\* the invocations of the sidecar for event
ReportsOf(event) == {k \in 1..Len(reports) : reports[k].event = event}

\* C24: a sidecar invocation (pipeline-start, pipeline-result, pipeline-finish)
\* that cannot be executed is written to the console and nothing else: every
\* Runner reported is kept Finished with the result it had, the Runners after it
\* are still admitted and finished, and run() returns what the setup steps, the
\* jobs and the reports alone decide.
C24_SidecarFailureOnlyLogged ==
    /\ \A k \in 1..Len(reports) : reports[k].logged <=> ~reports[k].ok
    /\ SidecarFailed =>
        /\ cli_report_binary # None
        /\ Cardinality(ReportsOf("pipeline-start")) = 1
        /\ Cardinality(ReportsOf("pipeline-result")) = Len(Finished)
        /\ \A k \in ReportsOf("pipeline-result") :
                \E r \in Range(Finished) :
                    r.name = reports[k].name /\ reports[k].flag = ~Success(r)
        /\ \A i \in Indexes(suites) :
                /\ Cardinality(FinishedOf(i)) <= 1
                /\ \A r \in FinishedOf(i) : calls[i].failed <=> ~Success(r)
        /\ (pc = "done" \/ StepIssued("save_html_report")) =>
                (AllFinished /\ Len(Finished) = Len(suites))
        /\ (pc = "exit") =>
                /\ Cardinality(ReportsOf("pipeline-finish")) = 1
                /\ (ExitStatus(result) = 0) <=>
                        (~SetupFailed /\ AllSucceeded /\ ReportsWritten)
                /\ \A k \in ReportsOf("pipeline-finish") :
                        reports[k].flag <=> (result \notin {Ok, Err("Failure")})

\* the first job finished was a success the sidecar could not be told of, a
\* second job was run after it, and the run ended with exit status 0
C24_Witness ==
    /\ pc = "exit"
    /\ Len(Finished) = 2
    /\ \E k \in ReportsOf("pipeline-result") :
            /\ ~reports[k].ok
            /\ \E j \in ReportsOf("pipeline-result") : j > k
    /\ \E k \in ReportsOf("pipeline-finish") : ~reports[k].ok
    /\ result = Ok

\* the Runners that issued an operation of the given kinds on the log file
\* under directory path
FileUsers(path, ops) ==
    {files[k].index : k \in {j \in 1..Len(files) : files[j].path = path /\ files[j].op \in ops}}

\* the directories of the jobs of the run
JobDirectories == {named[k].log_path : k \in 1..Len(named)}

\* C25: the log file of a job directory is created by at most one Runner, and
\* no two Runners of a run open or write the log file of the same directory,
\* also when two suites derive the same directory name: the second Runner
\* fails on the directory and is Finished with LogDirectory; every Runner that
\* is past create_log_file created and wrote its own file.
C25_LogFilePerJob ==
    /\ \A path \in JobDirectories :
        /\ Cardinality(FileUsers(path, {"create_file", "write"})) <= 1
        /\ Cardinality({k \in 1..Len(files) : files[k].path = path /\ files[k].op = "mkdir"
                                              /\ files[k].ok}) <= 1
    /\ \A k \in 1..Len(named) :
        /\ named[k].state = "Running" =>
                FileUsers(named[k].log_path, {"create_file", "write"}) = {named[k].index}
        /\ \A j \in 1..Len(named) :
                (j # k /\ named[j].log_path = named[k].log_path
                 /\ named[j].state = "Running") =>
                    named[k].state = "New" \/ named[k].error = Error("LogDirectory")

\* C25 witness: two suites with different fields derive the same job directory,
\* one Runner wrote the log file, the other is Finished with LogDirectory
C25_Witness ==
    \E j, k \in 1..Len(named) :
        /\ j # k
        /\ suites[j] # suites[k]
        /\ named[j].log_path = named[k].log_path
        /\ named[j].state = "Running"
        /\ named[k].state = "Finished"
        /\ named[k].error = Error("LogDirectory")
        /\ FileUsers(named[j].log_path, {"write"}) = {named[j].index}

\* the keys of a list of bindings, in order
Keys(envs) == [k \in 1..Len(envs) |-> envs[k][1]]

\* whether the bindings have a binding of key
HasKey(envs, key) == \E k \in 1..Len(envs) : envs[k][1] = key

\* the keys in the order envs() pushes them
KeyOrder == <<"CC", "OPTS", "TESTSUITE", "DPDK", "SANITIZERS", "TEST_RANGE", "LIBS",
              "UNSTABLE", "RECHECK">>

\* the position of a key in the order envs() pushes them
KeyRank(key) == CHOOSE r \in 1..Len(KeyOrder) : KeyOrder[r] = key

C27_TryReadyFalseOnlyWhenRunning ==
    poll # None =>
        /\ ~poll.ready => (~poll.err /\ poll.st = "alive")
        /\ poll.st = "exited" => poll.ready
        /\ poll.err => poll.ready
        /\ poll.ready => job.state = "Finished"
        /\ ~poll.ready => job.state = "Running"

\* C27 witness: the poll of a process still running failed, try_ready()
\* returned true and the Runner is Finished
C27_Witness ==
    /\ poll # None
    /\ poll.err
    /\ poll.st = "alive"
    /\ poll.ready
    /\ job.state = "Finished"

\* the queue whose step() is called next
StepQueue == IF pc = "cpu_step" THEN cpu_itensive ELSE regular

\* whether a step() of a queue is the next call of Scheduler::run
AtStep == pc \in {"cpu_step", "regular_step"}

\* what the next call of schedule() can end in
Scheduled == Schedule([q |-> StepQueue, log |-> <<>>])

\* the calls of run() of a log, in order
Runs(log) == SelectSeq(log, LAMBDA e : e.op = "run")

\* the indexes of the Runners of a list
IndexesOf(runners) == {runners[k].index : k \in 1..Len(runners)}

\* C28: schedule() admits waiting Runners last-in-first-out: a call pops the
\* Runners from the end of the waiting list backwards and leaves a prefix of
\* it; the waiting list stays in configuration order, and every Runner
\* admitted so far has a higher index than every Runner still waiting in its
\* queue, so within a queue suites are started in reverse configuration order.
C28_ScheduleLifo ==
    /\ \A q \in {cpu_itensive, regular} :
        /\ \A j, k \in 1..Len(q.waiting) : j < k => q.waiting[j].index < q.waiting[k].index
        /\ \A w \in IndexesOf(q.waiting) :
            \A a \in IndexesOf(q.running) \cup IndexesOf(q.finished) : w < a
    /\ AtStep =>
        \A s \in Scheduled :
            LET runs == Runs(s.log)
                waiting == StepQueue.waiting
            IN  /\ Len(runs) <= Len(waiting)
                /\ s.q.waiting = SubSeq(waiting, 1, Len(waiting) - Len(runs))
                /\ \A j \in 1..Len(runs) :
                    runs[j].index = waiting[Len(waiting) - j + 1].index

\* C28 witness: a call of schedule() on three waiting Runners admits the last
\* two, the last one first, and leaves the first waiting
C28_Witness ==
    /\ AtStep
    /\ Len(StepQueue.waiting) = 3
    /\ \E s \in Scheduled :
        /\ Len(Runs(s.log)) = 2
        /\ Runs(s.log)[1].index = StepQueue.waiting[3].index
        /\ Runs(s.log)[2].index = StepQueue.waiting[2].index
        /\ s.q.waiting = <<StepQueue.waiting[1]>>

\* the Runners whose run() failed in a log of schedule()
FailedRuns(log) == {log[k].index : k \in {j \in 1..Len(log) : log[j].op = "error"}}

\* C29: a Runner whose run() fails goes from waiting to finished and is never
\* in running, so it takes no capacity: a call of schedule() ends only with
\* waiting empty or running at the limit, running grows by the Runners whose
\* run() succeeded only, and the failed ones are in finished with their error.
C29_FailedRunBypassesRunning ==
    /\ \A i \in Indexes(suites) :
        (calls[i].run = 1 /\ calls[i].finish = 0 /\ calls[i].failed) =>
            /\ i \notin IndexesOf(cpu_itensive.running) \cup IndexesOf(regular.running)
            /\ i \in IndexesOf(cpu_itensive.finished) \cup IndexesOf(regular.finished)
    /\ AtStep =>
        \A s \in Scheduled :
            LET failed == FailedRuns(s.log)
            IN  /\ s.q.waiting = <<>> \/ Len(s.q.running) >= s.q.limit
                /\ Len(s.q.running) =
                        Len(StepQueue.running) + Len(Runs(s.log)) - Cardinality(failed)
                /\ failed \cap IndexesOf(s.q.running) = {}
                /\ \A i \in failed :
                    \E k \in 1..Len(s.q.finished) :
                        /\ s.q.finished[k].index = i
                        /\ s.q.finished[k].state = "Finished"
                        /\ ~Success(s.q.finished[k])

\* C29 witness: in one call of schedule() the run() of the first Runner popped
\* fails and the next one is admitted to running, more Runners popped than
\* the limit
C29_Witness ==
    /\ AtStep
    /\ \E s \in Scheduled :
        /\ Len(Runs(s.log)) >= 2
        /\ Len(Runs(s.log)) > s.q.limit
        /\ Runs(s.log)[1].index \in FailedRuns(s.log)
        /\ Runs(s.log)[2].index \in IndexesOf(s.q.running)
        /\ Len(s.q.running) = s.q.limit

\* the Runners finish() was called on in a log, in order
Finishes(log) == SelectSeq(log, LAMBDA e : e.op = "finish")

\* the Runners of running at the given positions
RunnersAt(q, positions) == {q.running[k] : k \in positions}

\* C30: collect_finished() calls finish() once on exactly the Runners whose
\* try_ready() returned true in that call, moves exactly those to finished,
\* and leaves every other Runner in running as it was, whatever the number
\* and the positions of the ready Runners.
C30_CollectFinishesExactlyReady ==
    AtStep =>
        \A s0 \in Scheduled :
            \A poll_errs \in SUBSET (1..Len(s0.q.running)) :
                LET positions == ReadyPositions(s0.q, poll_errs)
                    ready == IndexesOf(s0.q.running) \cap
                                {r.index : r \in RunnersAt(s0.q, positions)}
                    others == RunnersAt(s0.q, (1..Len(s0.q.running)) \ positions)
                IN  \A s \in CollectFinishedWith([q |-> s0.q, log |-> <<>>], poll_errs) :
                        /\ Len(Finishes(s.log)) = Cardinality(positions)
                        /\ {e.index : e \in Range(Finishes(s.log))} = ready
                        /\ Len(s.q.finished) = Len(s0.q.finished) + Cardinality(positions)
                        /\ IndexesOf(s.q.finished) = IndexesOf(s0.q.finished) \cup ready
                        /\ Len(s.q.running) = Len(s0.q.running) - Cardinality(positions)
                        /\ Range(s.q.running) = others
                        /\ s.q.waiting = s0.q.waiting

\* C30 witness: of three running Runners the first and the last are ready,
\* one by a failed poll, the middle one is not; the call finishes the two and
\* leaves the middle one in running
C30_Witness ==
    /\ AtStep
    /\ StepQueue.waiting = <<>>
    /\ Len(StepQueue.running) = 3
    /\ \E poll_errs \in SUBSET {1, 3} :
        /\ poll_errs # {}
        /\ ReadyPositions(StepQueue, poll_errs) = {1, 3}
        /\ \E s \in CollectFinishedWith([q |-> StepQueue, log |-> <<>>], poll_errs) :
            /\ s.q.running = <<StepQueue.running[2]>>
            /\ Len(Finishes(s.log)) = 2

\* C31: after the cpu-intensive queue has yielded its capacity no Runner is
\* started from it again: from the transfer on its waiting and running lists
\* are empty and its limit is 0, every Runner built into it is finished, and
\* a call of its step() starts nothing and changes nothing.
C31_NoStartAfterYield ==
    transfers >= 1 =>
        /\ cpu_itensive.waiting = <<>>
        /\ cpu_itensive.running = <<>>
        /\ cpu_itensive.limit = 0
        /\ \A i \in QueueIndexes(cpu_itensive) : calls[i].run = 1
        /\ Schedule([q |-> cpu_itensive, log |-> <<>>]) = {[q |-> cpu_itensive, log |-> <<>>]}
        /\ Step(cpu_itensive) = {[q |-> cpu_itensive, log |-> <<>>]}

\* C31 witness: the cpu-intensive queue ran Runners, yielded, and its step()
\* was called again in a later iteration while the regular queue has Runners
\* waiting
C31_Witness ==
    /\ transfers = 1
    /\ pc = "regular_step"
    /\ cpu_itensive.finished # <<>>
    /\ regular.waiting # <<>>
    /\ regular.running # <<>>

\* the number of run() calls made on the Runners of a set of indexes
RunCalls(cs, S) == {<<i, cs[i].run>> : i \in S}

\* C32, the steps: an iteration goes cpu-intensive step, regular step, yield
\* check, and back; Runners of the cpu-intensive queue are started in the
\* first only, Runners of the regular queue in the second only, and the
\* limits change in the third only.
C32_Step ==
    /\ pc' # pc =>
        \/ pc = "cpu_step" /\ pc' \in {"regular_step", "done"}
        \/ pc = "regular_step" /\ pc' = "yield"
        \/ pc = "yield" /\ pc' = "cpu_step"
    /\ (cpu_itensive.limit' # cpu_itensive.limit \/ regular.limit' # regular.limit
        \/ transfers' # transfers) =>
            pc = "yield" /\ pc' = "cpu_step"
    /\ (Len(regular.running') > Len(regular.running)
        \/ regular.waiting' # regular.waiting
        \/ RunCalls(calls', QueueIndexes(regular)) # RunCalls(calls, QueueIndexes(regular))) =>
            pc = "regular_step" /\ pc' = "yield"
    /\ (Len(cpu_itensive.running') > Len(cpu_itensive.running)
        \/ cpu_itensive.waiting' # cpu_itensive.waiting
        \/ RunCalls(calls', QueueIndexes(cpu_itensive))
                # RunCalls(calls, QueueIndexes(cpu_itensive))) =>
            pc = "cpu_step" /\ pc' = "regular_step"

\* C32: each iteration of Scheduler::run performs the cpu-intensive step, the
\* regular step and the yield check in that order, so capacity released at a
\* yield check is used by the regular queue no earlier than its step of the
\* following iteration.
C32_IterationOrder == [][C32_Step]_vars

\* C32 witness: right after the transfer the regular queue has Runners waiting
\* and free capacity it has not used yet
C32_Witness ==
    /\ pc = "cpu_step"
    /\ transfers = 1
    /\ regular.waiting # <<>>
    /\ Len(regular.running) = RegularLimit(concurrent_limit)
    /\ regular.limit > Len(regular.running)

\* the position of the first effect of operation op, 0 when there is none
Position(op) ==
    IF Issued(op) THEN CHOOSE k \in 1..Len(effects) :
                            effects[k].op = op /\ \A j \in 1..(k - 1) : effects[j].op # op
    ELSE 0

\* C33 as stated: finish() retrieves the artifacts, then waits for the exit
\* status of the process, then the VM is destroyed, in that order.
C33_FinishOrder ==
    FinishCalled =>
        /\ Count("scp") = 1 /\ Count("wait") = 1 /\ Count("virsh_destroy") = 1
        /\ Position("scp") < Position("wait")
        /\ Position("wait") < Position("virsh_destroy")

\* C33 amended: finish() first attempts the artifact retrieval, once, and the
\* VM is destroyed once, after it and last; wait() is called between the two
\* when scp could be executed, whatever its exit status, and is not called at
\* all when scp could not be executed: the VM is then destroyed with the
\* process not waited for.  The VM is never destroyed before the retrieval
\* has been attempted.
C33_FinishOrderUnlessScpUnexecuted ==
    /\ FinishCalled =>
        /\ Count("scp") = 1 /\ Count("virsh_destroy") = 1
        /\ Position("scp") < Position("virsh_destroy")
        /\ \A k \in (Position("virsh_destroy") + 1)..Len(effects) : effects[k].op = "eprintln"
        /\ IF NotExecuted("scp")
           THEN /\ ~Issued("wait")
                /\ Position("virsh_destroy") = Position("scp") + 1
           ELSE /\ Count("wait") = 1
                /\ Position("wait") = Position("scp") + 1
                /\ Position("virsh_destroy") = Position("wait") + 1
    /\ (job.state = "Running") => ~Issued("scp") /\ ~Issued("wait") /\ ~Issued("virsh_destroy")
    /\ (Issued("virsh_destroy") /\ RanThrough) => Issued("scp")

\* C33 witness: finish() fetched the artifacts, waited for the process and the
\* VM was destroyed
C33_Witness ==
    /\ FinishCalled
    /\ Succeeded("scp")
    /\ Succeeded("wait")
    /\ Succeeded("virsh_destroy")
    /\ Position("scp") < Position("wait")
    /\ Position("wait") < Position("virsh_destroy")
    /\ domain = "absent"

\* the steps of Vm::start that were issued, in the order they were issued
StartIssued == SelectSeq(effects, LAMBDA e : e.op \in StartOps)

\* C34: Vm::start runs the running-check, the cleanup of stale files, the
\* descriptor write, the disk creation, the domain creation and the ready
\* check in that order, each once; the first step that fails makes start()
\* return an error, with no later step executed; in the cleanup a missing
\* file is passed over and any other removal error ends start() before the
\* descriptor is written; start() succeeds only when the ready check passed.
C34_StartStopsAtFirstFailure ==
    Issued("virsh_list") =>
        /\ job.state \in {"Running", "Finished"}
        /\ \A k \in 1..Len(StartIssued) : StartIssued[k].op = StartSteps[k]
        /\ \A k \in 1..Len(StartIssued) :
            ~StartIssued[k].ok =>
                /\ k = Len(StartIssued)
                /\ job.state = "Finished"
                /\ job.error.kind = "Vm"
                /\ ~Issued("ssh_spawn")
        /\ (\E k \in 1..Len(removals) : removals[k] = "err") =>
                /\ Failed("remove_files")
                /\ ~Issued("write_xml")
                /\ job.error = VmError("Cleanup")
        /\ (Len(removals) = Len(CleanupPaths) /\ PreRunCleanup(removals)) =>
                (Succeeded("remove_files") /\ Issued("write_xml"))
        /\ Issued("ssh_spawn") => Succeeded("ssh_echo")
        /\ Failed("ssh_echo") => (job.state = "Finished" /\ job.error.kind = "Vm")

\* C35: in every state the limits of the two queues add up to the overall
\* configured limit (1 when none is configured), so the Runners in running in
\* both queues together never exceed it, before and after the capacity
\* transfer.
C35_LimitsSumToOverall ==
    /\ cpu_itensive.limit + regular.limit = OverallLimit(concurrent_limit)
    /\ Len(cpu_itensive.running) + Len(regular.running) <= OverallLimit(concurrent_limit)
    /\ cpu_itensive.limit >= 0 /\ regular.limit >= 0

\* C35 witness: overall limit 2; the cpu-intensive queue ran its Runner and
\* yielded, and the regular queue runs two Runners, as many as the overall limit
C35_Witness ==
    /\ concurrent_limit = Some(2)
    /\ transfers = 1
    /\ cpu_itensive.finished # <<>>
    /\ Len(regular.running) = 2
    /\ regular.limit = 2 /\ cpu_itensive.limit = 0

\* the queues of the Scheduler
Queues == {cpu_itensive, regular}

\* C36: with an overall limit of at least 1 no Runner is placed in a queue
\* whose limit is 0: as built, a queue with limit 0 holds no Runner; with the
\* cpu-intensive limit 0 (overall limit 1 or none) the cpu-intensive suites
\* are in the regular queue; with an overall limit of 2 or more both queues
\* are built with a limit of at least 1; and a Runner never waits in a queue
\* whose limit is 0.
C36_NoRunnerInZeroLimitQueue ==
    OverallLimit(concurrent_limit) >= 1 =>
        /\ \A q \in Queues : q.waiting # <<>> => q.limit >= 1
        /\ transfers = 0 =>
            /\ \A q \in Queues : q.limit = 0 => QueueSize(q) = 0
            /\ OverallLimit(concurrent_limit) >= 2 =>
                    (cpu_itensive.limit >= 1 /\ regular.limit >= 1)
            /\ OverallLimit(concurrent_limit) = 1 =>
                /\ cpu_itensive.limit = 0 /\ regular.limit = 1
                /\ QueueIndexes(regular) = Indexes(suites)

\* C36 witness: overall limit 1; the Scheduler is built with a cpu-intensive
\* queue of limit 0 that holds nothing, and the Runner of a cpu-intensive
\* suite waits in the regular queue
C36_Witness ==
    /\ concurrent_limit = Some(1)
    /\ cpu_itensive.limit = 0
    /\ QueueSize(cpu_itensive) = 0
    /\ \E k \in 1..Len(regular.waiting) : IsCpuIntensive(regular.waiting[k].name)
    /\ \A i \in Indexes(suites) : calls[i].run = 0

\* the positions of a log that hold a console line of the given kind
Lines(log, line) == {k \in 1..Len(log) : log[k].op = "console" /\ log[k].line = line}

\* the positions of a log that hold an invocation of pipeline-result
Results(log) == {k \in 1..Len(log) : log[k].op = "report"}

\* how many pipeline-result invocations carried the name with the flag
ResultsSent(name, flag) ==
    Cardinality({k \in ReportsOf("pipeline-result") :
                    reports[k].name = name /\ reports[k].flag = flag})

\* how many Finished Runners carry the name, failed or not
FinishedAs(name, failed) ==
    Cardinality({k \in 1..Len(Finished) :
                    Finished[k].name = name /\ (~Success(Finished[k])) = failed})

\* C37: every Runner gets exactly one start line, right before its run(), and
\* exactly one completion report when it is added to finished: the console
\* line and, with the sidecar configured, one pipeline-result before it that
\* carries --failed iff success() is false; no completion report is emitted
\* for a Runner still waiting or running, and none twice.
C37_OneStartOneCompletion ==
    /\ \A i \in Indexes(suites) : calls[i].run <= 1
    /\ pc = "done" =>
        /\ \A i \in Indexes(suites) : calls[i].run = 1
        /\ Len(Finished) = Len(suites)
    /\ \A name \in ConfiguredSuiteTypes, flag \in BOOLEAN :
        ResultsSent(name, flag) =
            (IF cli_report_binary.some THEN FinishedAs(name, flag) ELSE 0)
    /\ AtStep =>
        \A s \in Step(StepQueue) :
            LET log == s.log
                added == IndexesOf(s.q.finished) \ IndexesOf(StepQueue.finished)
            IN  /\ \A k \in 1..Len(log) :
                    log[k].op = "run" =>
                        /\ k > 1
                        /\ log[k - 1].op = "console" /\ log[k - 1].line = "starting"
                        /\ log[k - 1].index = log[k].index
                /\ Cardinality(Lines(log, "starting")) = Len(Runs(log))
                /\ {log[k].index : k \in Lines(log, "done")} = added
                /\ Cardinality(Lines(log, "done")) = Cardinality(added)
                /\ \A k \in Lines(log, "done") :
                    /\ log[k].index \notin IndexesOf(s.q.waiting) \cup IndexesOf(s.q.running)
                    /\ \E j \in 1..Len(s.q.finished) :
                        /\ s.q.finished[j].index = log[k].index
                        /\ Success(s.q.finished[j]) = log[k].ok
                    /\ cli_report_binary.some =>
                        /\ k > 1
                        /\ log[k - 1].op = "report"
                        /\ log[k - 1].event = "pipeline-result"
                        /\ log[k - 1].name = log[k].name
                        /\ log[k - 1].flag = ~log[k].ok
                /\ Cardinality(Results(log)) =
                        (IF cli_report_binary.some THEN Cardinality(added) ELSE 0)

\* C37 witness: with the sidecar configured, a step() of a queue finishes one
\* Runner that failed in run() and one that ran, and the run goes on to
\* report one pipeline-result with --failed and one without
C37_Witness ==
    /\ cli_report_binary.some
    /\ pc = "reporting_finish"
    /\ Len(Finished) = 2
    /\ \E j, k \in 1..Len(reports) :
        /\ reports[j].event = "pipeline-result" /\ reports[j].flag
        /\ reports[k].event = "pipeline-result" /\ ~reports[k].flag
    /\ \E i \in Indexes(suites) : calls[i].failed /\ calls[i].finish = 0

\* whether the commit hash was read for the sidecar
HashRead == \E k \in 1..Len(steps) : steps[k] = Did("commit_hash", TRUE)

\* C38: with the sidecar configured, a pipeline-start is invoked at most once,
\* and once it was, exactly one pipeline-finish is invoked before run()
\* returns, after every pipeline-result, on success and on every error path
\* after the start; it carries --error iff run() ends with an error other
\* than Failure; when run() returns before the start (log directory, git
\* update, commit hash) no pipeline-finish is invoked, and none without a
\* sidecar.
C38_StartMatchedByFinish ==
    /\ Cardinality(ReportsOf("pipeline-start")) <= 1
    /\ Cardinality(ReportsOf("pipeline-finish")) <= 1
    /\ ReportsOf("pipeline-start") # {} <=> (cli_report_binary.some /\ HashRead)
    /\ ReportsOf("pipeline-start") # {} => reports[1].event = "pipeline-start"
    /\ ReportsOf("pipeline-result") # {} => ReportsOf("pipeline-start") # {}
    /\ \A k \in ReportsOf("pipeline-finish") :
        /\ ReportsOf("pipeline-start") # {}
        /\ k = Len(reports)
        /\ pc = "exit"
        /\ reports[k].flag <=> (result \notin {Ok, Err("Failure")})
    /\ pc = "exit" =>
        /\ Cardinality(ReportsOf("pipeline-finish")) = Cardinality(ReportsOf("pipeline-start"))
        /\ (result # None /\ ExitStatus(result) = 1 /\ ~HashRead) => reports = <<>>
    /\ ~cli_report_binary.some => reports = <<>>

\* C38 witness: the sidecar was told of the start, the update of the base
\* image failed, and run() returned BaseVm after a pipeline-finish with --error
C38_Witness ==
    /\ pc = "exit"
    /\ result = Err("BaseVm")
    /\ Cardinality(ReportsOf("pipeline-start")) = 1
    /\ \E k \in ReportsOf("pipeline-finish") : reports[k].flag /\ k = 2

====
